---- MODULE Spec2Model ----
(***************************************************************************)
(* A model of the task-graph engine of SWIFT (src/src/engine.c): the       *)
(* task graph built by engine_maketasks on a small cell tree, the          *)
(* activation pass engine_marktasks, the launch barrier of engine_launch   *)
(* and engine_barrier, and the particle movement of engine_redistribute    *)
(* and engine_exchange_strays.                                             *)
(***************************************************************************)
EXTENDS Integers, Sequences, FiniteSets, TLC

(***************************************************************************)
(* The cell tree.  Cell 1 is a local top-level cell with the progeny 2 and *)
(* 3; cell 4 is a second top-level cell that is local or owned by node 1.  *)
(* 0 stands for the NULL cell or task.  The self/pair tasks sit on the     *)
(* cells 1..4, so that cell_set_super makes 1 the super cell of 1, 2, 3    *)
(* and 4 its own super cell.                                               *)
(***************************************************************************)
Cells == {1, 2, 3, 4}

engine_rank == 0

ForeignNode == 1

progeny(c) == IF c = 1 THEN {2, 3} ELSE {}

super(c) == IF c = 4 THEN 4 ELSE 1

TopCells == <<1, 4>>

\* The cells whose particles lie in cell c: c and its progeny.
Under(c) == {c} \cup progeny(c)

\* The sort-list ids (axis flags) of the two pair tasks.
SidA == 4

SidB == 10

\* The policies the engine is run with.
Policies == {{"hydro"}, {"hydro", "cooling", "sourceterms"}}

(***************************************************************************)
(* Bit masks are kept as integers, as in the code.                         *)
(***************************************************************************)
RECURSIVE Pow2(_)
Pow2(n) == IF n = 0 THEN 1 ELSE 2 * Pow2(n - 1)

\* m & (1 << b) != 0
BitSet(m, b) == (m \div Pow2(b)) % 2 = 1

AtomicOrXor(m, b) == IF BitSet(m, b) THEN m - Pow2(b) ELSE m + Pow2(b)

\* atomic_or(&m, 1 << b)
AtomicOr(m, b) == IF BitSet(m, b) THEN m ELSE m + Pow2(b)

(***************************************************************************)
(* Tasks are records; a task is named by its index in the task array.      *)
(***************************************************************************)
Task(type, subtype, flags, ci, cj, tight) ==
  [type |-> type, subtype |-> subtype, flags |-> flags, ci |-> ci, cj |-> cj,
   tight |-> tight]

\* The index of the task of the given type and subtype on cell c, 0 if none.
TaskOf(ts, type, subtype, c) ==
  LET S == {i \in DOMAIN ts : ts[i].type = type /\ ts[i].subtype = subtype
                              /\ ts[i].ci = c}
  IN IF S = {} THEN 0 ELSE CHOOSE i \in S : \A j \in S : i <= j

\* The hierarchical task pointer c->init, c->ghost, ... of a cell.
Hier(ts, type, c) == TaskOf(ts, type, "none", c)

\* The density-loop and sort tasks present when the hierarchical tasks are
\* made: the result of engine_make_hydroloop_tasks and scheduler_splittasks
\* on the cell tree.  A self task exists only for a local cell.
LoopTasks(nodeID) ==
  << Task("self", "density", 0, 2, 0, 0),
     Task("sub_self", "density", 0, 3, 0, 0),
     Task("pair", "density", SidA, 2, 3, 1),
     Task("sub_pair", "density", SidB, 1, 4, 1) >>
  \o (IF nodeID[4] = engine_rank
      THEN << Task("self", "density", 0, 4, 0, 0) >> ELSE << >>)
  \o << Task("sort", "none", 0, 2, 0, 0), Task("sort", "none", 0, 3, 0, 0) >>

\* engine_make_hierarchical_tasks without the "local tasks only" test.
engine_make_hierarchical_tasks_any_node(c, nodeID, policy) ==
  IF super(c) = c
  THEN << Task("init", "none", 0, c, 0, 0),
          Task("kick1", "none", 0, c, 0, 0),
          Task("kick2", "none", 0, c, 0, 0),
          Task("timestep", "none", 0, c, 0, 0),
          Task("drift", "none", 0, c, 0, 0) >>
       \o (IF "hydro" \in policy
           THEN << Task("ghost", "none", 0, c, 0, 0) >> ELSE << >>)
       \o (IF "cooling" \in policy
           THEN << Task("cooling", "none", 0, c, 0, 0) >> ELSE << >>)
       \o (IF "sourceterms" \in policy
           THEN << Task("sourceterms", "none", 0, c, 0, 0) >> ELSE << >>)
  ELSE << >>

\* engine_make_hierarchical_tasks on a top-level cell c: the tasks it adds.
engine_make_hierarchical_tasks(c, nodeID, policy) ==
  IF super(c) = c /\ nodeID[c] = engine_rank
  THEN << Task("init", "none", 0, c, 0, 0),
          Task("kick1", "none", 0, c, 0, 0),
          Task("kick2", "none", 0, c, 0, 0),
          Task("timestep", "none", 0, c, 0, 0),
          Task("drift", "none", 0, c, 0, 0) >>
       \o (IF "hydro" \in policy
           THEN << Task("ghost", "none", 0, c, 0, 0) >> ELSE << >>)
       \o (IF "cooling" \in policy
           THEN << Task("cooling", "none", 0, c, 0, 0) >> ELSE << >>)
       \o (IF "sourceterms" \in policy
           THEN << Task("sourceterms", "none", 0, c, 0, 0) >> ELSE << >>)
  ELSE << >>

\* The unlock edges engine_make_hierarchical_tasks adds on super cell c.
HierUnlocks(ts, c, policy) ==
  IF Hier(ts, "init", c) = 0 THEN {}
  ELSE { <<Hier(ts, "kick2", c), Hier(ts, "timestep", c)>>,
         <<Hier(ts, "kick1", c), Hier(ts, "drift", c)>>,
         <<Hier(ts, "drift", c), Hier(ts, "init", c)>> }
       \cup (IF "cooling" \in policy
             THEN { <<Hier(ts, "cooling", c), Hier(ts, "kick2", c)>> } ELSE {})

IsLoop(t) == t.type \in {"self", "pair", "sub_self", "sub_pair"}

IsDensity(t) == IsLoop(t) /\ t.subtype = "density"

\* The indices of the density-loop tasks, in array order.
RECURSIVE DensityInds(_, _)
DensityInds(ts, i) ==
  IF i > Len(ts) THEN << >>
  ELSE (IF IsDensity(ts[i]) THEN << i >> ELSE << >>) \o DensityInds(ts, i + 1)

\* engine_make_extra_hydroloop_tasks with the force twin of a pair given
\* its first cell only.
ForceTwinsWithoutCj(ts) ==
  LET D == DensityInds(ts, 1)
  IN [k \in 1..Len(D) |->
        Task(ts[D[k]].type, "force",
             IF ts[D[k]].type \in {"sub_self", "sub_pair"}
             THEN ts[D[k]].flags ELSE 0,
             ts[D[k]].ci, 0, 0)]

\* The force-loop tasks engine_make_extra_hydroloop_tasks appends: one per
\* density-loop task, same type and cells; self and pair twins get flags 0.
ForceTwins(ts) ==
  LET D == DensityInds(ts, 1)
  IN [k \in 1..Len(D) |->
        Task(ts[D[k]].type, "force",
             IF ts[D[k]].type \in {"sub_self", "sub_pair"}
             THEN ts[D[k]].flags ELSE 0,
             ts[D[k]].ci, ts[D[k]].cj, 0)]

hydro_deps_no_ghost(ts, density, force, c, with_cooling) ==
  { <<Hier(ts, "init", super(c)), density>>,
    <<Hier(ts, "ghost", super(c)), force>> }
  \cup (IF with_cooling
        THEN { <<force, Hier(ts, "cooling", super(c))>> }
        ELSE { <<force, Hier(ts, "kick2", super(c))>> })

\* engine_make_hydro_loops_dependencies (the build without EXTRA_HYDRO_LOOP).
engine_make_hydro_loops_dependencies(ts, density, force, c, with_cooling) ==
  { <<Hier(ts, "init", super(c)), density>>,
    <<density, Hier(ts, "ghost", super(c))>>,
    <<Hier(ts, "ghost", super(c)), force>> }
  \cup (IF with_cooling
        THEN { <<force, Hier(ts, "cooling", super(c))>> }
        ELSE { <<force, Hier(ts, "kick2", super(c))>> })

\* The unlock edges of engine_make_extra_hydroloop_tasks with the
\* dependencies made for the cell ci of a task only.
HydroUnlocksCiOnly(ts, base, nodeID, policy) ==
  LET D == DensityInds(ts, 1)
      wc == "cooling" \in policy
  IN UNION { IF nodeID[ts[D[k]].ci] = engine_rank
             THEN engine_make_hydro_loops_dependencies(
                    ts, D[k], base + k, ts[D[k]].ci, wc)
             ELSE {}
             : k \in 1..Len(D) }

\* The unlock edges engine_make_extra_hydroloop_tasks adds; ts holds the
\* force twins from index base + 1 on, in the order of the density tasks.
HydroUnlocks(ts, base, nodeID, policy) ==
  LET D == DensityInds(ts, 1)
      wc == "cooling" \in policy
  IN UNION { LET t == ts[D[k]]
                 t2 == base + k
             IN (IF nodeID[t.ci] = engine_rank
                 THEN engine_make_hydro_loops_dependencies(ts, D[k], t2, t.ci, wc)
                 ELSE {})
                \cup
                (IF t.type \in {"pair", "sub_pair"}
                    /\ nodeID[t.cj] = engine_rank /\ super(t.ci) # super(t.cj)
                 THEN engine_make_hydro_loops_dependencies(ts, D[k], t2, t.cj, wc)
                 ELSE {})
             : k \in 1..Len(D) }

\* The link list c->density or c->force of a cell: the loop tasks of that
\* subtype with ci = c or cj = c (engine_count_and_link_tasks, engine_addlink).
Links(ts, subtype, c) ==
  {i \in DOMAIN ts : IsLoop(ts[i]) /\ ts[i].subtype = subtype
                     /\ (ts[i].ci = c \/ ts[i].cj = c)}
\* The message tag base of a cell (c->tag).
tag(c) == c

\* engine_addtasks_recv with the tag of the xv task on all three tasks.
engine_addtasks_recv_same_tag(ts, c) ==
  IF Links(ts, "density", c) # {}
  THEN << Task("recv", "xv", 4 * tag(c), c, 0, 0),
          Task("recv", "rho", 4 * tag(c), c, 0, 0),
          Task("recv", "tend", 4 * tag(c), c, 0, 0) >>
  ELSE << >>

\* engine_addtasks_recv on the foreign top-level cell c: the tasks it adds.
engine_addtasks_recv(ts, c) ==
  IF Links(ts, "density", c) # {}
  THEN << Task("recv", "xv", 4 * tag(c), c, 0, 0),
          Task("recv", "rho", 4 * tag(c) + 1, c, 0, 0),
          Task("recv", "tend", 4 * tag(c) + 2, c, 0, 0) >>
  ELSE << >>

\* engine_addtasks_recv without the edge from recv_xv to the sort task.
RecvUnlocksWithoutSort(ts, c) ==
  LET t_xv == TaskOf(ts, "recv", "xv", c)
      t_rho == TaskOf(ts, "recv", "rho", c)
      t_ti == TaskOf(ts, "recv", "tend", c)
  IN IF t_xv = 0 THEN {}
     ELSE UNION { { <<t_xv, l>>, <<l, t_rho>> } : l \in Links(ts, "density", c) }
          \cup UNION { { <<t_rho, l>>, <<l, t_ti>> } : l \in Links(ts, "force", c) }

\* The unlock edges engine_addtasks_recv adds on the foreign cell c.
RecvUnlocks(ts, c) ==
  LET t_xv == TaskOf(ts, "recv", "xv", c)
      t_rho == TaskOf(ts, "recv", "rho", c)
      t_ti == TaskOf(ts, "recv", "tend", c)
      sorts == Hier(ts, "sort", c)
  IN IF t_xv = 0 THEN {}
     ELSE UNION { { <<t_xv, l>>, <<l, t_rho>> } : l \in Links(ts, "density", c) }
          \cup UNION { { <<t_rho, l>>, <<l, t_ti>> } : l \in Links(ts, "force", c) }
          \cup (IF sorts # 0 THEN { <<t_xv, sorts>> } ELSE {})

\* Whether some density task linked to local cell ci involves the node of cj.
HasDensityFor(ts, nodeID, ci, cj) ==
  \E l \in Links(ts, "density", ci) :
     nodeID[ts[l].ci] = nodeID[cj]
     \/ (ts[l].cj # 0 /\ nodeID[ts[l].cj] = nodeID[cj])

\* engine_addtasks_send that adds no send_ti task.
engine_addtasks_send_without_ti(ts, nodeID, ci, cj) ==
  IF HasDensityFor(ts, nodeID, ci, cj)
  THEN << Task("send", "xv", 4 * tag(ci), ci, cj, 0),
          Task("send", "rho", 4 * tag(ci) + 1, ci, cj, 0) >>
  ELSE << >>

\* engine_addtasks_send on the local top-level cell ci towards the node of
\* the (foreign) cell cj: the tasks it adds.
engine_addtasks_send(ts, nodeID, ci, cj) ==
  IF HasDensityFor(ts, nodeID, ci, cj)
  THEN << Task("send", "xv", 4 * tag(ci), ci, cj, 0),
          Task("send", "rho", 4 * tag(ci) + 1, ci, cj, 0),
          Task("send", "tend", 4 * tag(ci) + 2, ci, cj, 0) >>
  ELSE << >>

\* engine_addtasks_send without the edge from send_rho to kick2.
SendUnlocksWithoutKick2(ts, ci) ==
  LET t_xv == TaskOf(ts, "send", "xv", ci)
      t_rho == TaskOf(ts, "send", "rho", ci)
      t_ti == TaskOf(ts, "send", "tend", ci)
  IN IF t_xv = 0 THEN {}
     ELSE { <<Hier(ts, "ghost", super(ci)), t_rho>>,
            <<t_xv, Hier(ts, "ghost", super(ci))>>,
            <<Hier(ts, "drift", super(ci)), t_xv>>,
            <<Hier(ts, "timestep", super(ci)), t_ti>> }

\* The unlock edges engine_addtasks_send adds for the sending cell ci.
SendUnlocks(ts, ci) ==
  LET t_xv == TaskOf(ts, "send", "xv", ci)
      t_rho == TaskOf(ts, "send", "rho", ci)
      t_ti == TaskOf(ts, "send", "tend", ci)
  IN IF t_xv = 0 THEN {}
     ELSE { <<t_rho, Hier(ts, "kick2", super(ci))>>,
            <<Hier(ts, "ghost", super(ci)), t_rho>>,
            <<t_xv, Hier(ts, "ghost", super(ci))>>,
            <<Hier(ts, "drift", super(ci)), t_xv>>,
            <<Hier(ts, "timestep", super(ci)), t_ti>> }

\* The link list c->send_xv, c->send_rho or c->send_ti of a local cell c:
\* engine_addtasks_send links the send tasks of a top-level cell to every
\* cell of its hierarchy that has a density task with the target node.
SendLinks(ts, nodeID, subtype, c) ==
  {i \in DOMAIN ts :
     /\ ts[i].type = "send" /\ ts[i].subtype = subtype
     /\ c \in Under(ts[i].ci)
     /\ HasDensityFor(ts, nodeID, c, ts[i].cj)}

\* engine_maketasks: the task array.
MakeTasks(nodeID, policy) ==
  LET t0 == LoopTasks(nodeID)
      t1 == t0 \o engine_make_hierarchical_tasks(TopCells[1], nodeID, policy)
               \o engine_make_hierarchical_tasks(TopCells[2], nodeID, policy)
      t2 == t1 \o ForceTwins(t1)
      t3 == IF nodeID[4] # engine_rank
            THEN t2 \o engine_addtasks_recv(t2, 4) ELSE t2
  IN IF nodeID[4] # engine_rank
     THEN t3 \o engine_addtasks_send(t3, nodeID, 1, 4) ELSE t3

\* engine_maketasks: the unlock edges of the task array ts.
MakeUnlocks(ts, nodeID, policy) ==
  LET base == CHOOSE i \in DOMAIN ts :
                 /\ ts[i].subtype = "force"
                 /\ \A j \in DOMAIN ts : ts[j].subtype = "force" => i <= j
  IN HierUnlocks(ts, 1, policy) \cup HierUnlocks(ts, 4, policy)
     \cup HydroUnlocks(ts, base - 1, nodeID, policy)
     \cup (IF nodeID[4] # engine_rank
           THEN RecvUnlocks(ts, 4) \cup SendUnlocks(ts, 1) ELSE {})

(***************************************************************************)
(* State.  The first group is the configuration an engine is built with    *)
(* and the graph engine_maketasks made for it; the second is the state of  *)
(* the activation pass engine_marktasks; the third is the state of a       *)
(* launch: the barrier of the engine, the runner threads and the           *)
(* scheduler.                                                              *)
(***************************************************************************)
VARIABLES nodeID, policy, ti_current, ti_end_min, sorted, dx_max, tasks, unlocks

cfgVars == <<nodeID, policy, ti_current, ti_end_min, sorted, dx_max, tasks, unlocks>>

VARIABLES skip, sortflags, updated, g_updated, s_updated, rebuild_space,
          mphase, cursor, mpos, mend, mpass, snap

markVars == <<skip, sortflags, updated, g_updated, s_updated, rebuild_space,
              mphase, cursor, mpos, mend, mpass, snap>>

VARIABLES barrier_running, barrier_launch, barrier_launchcount, mutex, woken,
          ewoken, epc, wpc, cur, waiting, wait, tstate, passes, execs

launchVars == <<barrier_running, barrier_launch, barrier_launchcount, mutex,
                woken, ewoken, epc, wpc, cur, waiting, wait, tstate, passes,
                execs>>

\* The state of the cross-node particle movement (engine_redistribute and
\* engine_exchange_strays), one entry per node: the particle arrays of the
\* space, the transfer counts, the new arrays, the messages in flight and
\* the posted receives of the redistribution, the proxies' buffers and the
\* pending requests of the exchange of strays, and each node's position in
\* the two functions.  pop records the particles as they were before the
\* call.
VARIABLES pop, parts, gparts, sparts, counts, g_counts, s_counts, parts_new,
          gparts_new, sparts_new, net, posted, rpc, offsets, Nstray, sizes,
          proxies, reqs_in, count_in, spc

moveVars == <<pop, parts, gparts, sparts, counts, g_counts, s_counts,
              parts_new, gparts_new, sparts_new, net, posted, rpc, offsets,
              Nstray, sizes, proxies, reqs_in, count_in, spc>>

\* The number of MPI ranks.
nr_nodes == 3

Nodes == 0..(nr_nodes - 1)

\* No particle movement is under way.
MoveParked ==
  /\ pop = [n \in Nodes |-> <<>>]
  /\ parts = [n \in Nodes |-> <<>>]
  /\ gparts = [n \in Nodes |-> <<>>]
  /\ sparts = [n \in Nodes |-> <<>>]
  /\ counts = [n \in Nodes |-> <<>>]
  /\ g_counts = [n \in Nodes |-> <<>>]
  /\ s_counts = [n \in Nodes |-> <<>>]
  /\ parts_new = [n \in Nodes |-> <<>>]
  /\ gparts_new = [n \in Nodes |-> <<>>]
  /\ sparts_new = [n \in Nodes |-> <<>>]
  /\ net = {}
  /\ posted = [n \in Nodes |-> {}]
  /\ rpc = [n \in Nodes |-> "off"]
  /\ offsets = [n \in Nodes |-> <<>>]
  /\ Nstray = [n \in Nodes |-> <<>>]
  /\ sizes = [n \in Nodes |-> <<>>]
  /\ proxies = [n \in Nodes |-> <<>>]
  /\ reqs_in = [n \in Nodes |-> {}]
  /\ count_in = [n \in Nodes |-> <<>>]
  /\ spc = [n \in Nodes |-> "off"]

\* The state of engine_step: the engine's position in the step, its rebuild
\* and repartition flags, its integer times, the snapshot parameters, the
\* calls the step has made so far and the times of the snapshots written.
VARIABLES epos, forcerebuild, forcerepart, repart, ti_old, e_ti_end_min,
          ti_nextSnapshot, timeFirstSnapshot, deltaTimeSnapshot, log, dumps

stepVars == <<epos, forcerebuild, forcerepart, repart, ti_old, e_ti_end_min,
              ti_nextSnapshot, timeFirstSnapshot, deltaTimeSnapshot, log,
              dumps>>

\* No step is under way.
StepParked ==
  /\ epos = "off"
  /\ forcerebuild = 0
  /\ forcerepart = "REPART_NONE"
  /\ repart = FALSE
  /\ ti_old = 0
  /\ e_ti_end_min = 0
  /\ ti_nextSnapshot = 0
  /\ timeFirstSnapshot = 0
  /\ deltaTimeSnapshot = 0
  /\ log = <<>>
  /\ dumps = <<>>

\* The pool of cell-task links of the engine: e->links as the slots written
\* so far (by index), e->nr_links, e->size_links, the heads of the link
\* lists of the cells (0 is not a slot here: NULL) and the fatal error the
\* engine has stopped with, if any.
VARIABLES links, nr_links, size_links, heads, lerr

linkVars == <<links, nr_links, size_links, heads, lerr>>

\* No link pool is allocated.
LinkParked ==
  /\ links = <<>>
  /\ nr_links = 0
  /\ size_links = 0
  /\ heads = <<>>
  /\ lerr = ""

\* The hash map: m->chunks, m->size, m->table_size, the fatal error the
\* program has stopped with, what the last hashmap_lookup returned, the
\* value last put under each key (-1: none yet) and the two numbers of the
\* hash function.
VARIABLES hm_chunks, hm_size, hm_table_size, hm_err, hm_ret, put_log,
          rand_a, rand_c

hashVars == <<hm_chunks, hm_size, hm_table_size, hm_err, hm_ret, put_log,
              rand_a, rand_c>>

\* No hash map exists.
HashParked ==
  /\ hm_chunks = <<>>
  /\ hm_size = 0
  /\ hm_table_size = 0
  /\ hm_err = ""
  /\ hm_ret = <<>>
  /\ put_log = <<>>
  /\ rand_a = 0
  /\ rand_c = 0

\* The grid of top-level cells engine_make_hydroloop_tasks is run on, the tasks it has added and whether it has returned.
VARIABLES grid_cdim, grid_periodic, grid_count, grid_nodeID, grid_tasks, grid_done

gridVars == <<grid_cdim, grid_periodic, grid_count, grid_nodeID, grid_tasks, grid_done>>

GridParked ==
  /\ grid_cdim = << >>
  /\ grid_periodic = FALSE
  /\ grid_count = << >>
  /\ grid_nodeID = << >>
  /\ grid_tasks = << >>
  /\ grid_done = FALSE

\* The engine engine_maketasks is run on (its policies, the nodes of the cells, the gravity particle counts of the top-level cells, whether the pair of the top-level cells is split), the task array and unlock edges it has made and whether it has returned.
VARIABLES mk_policy, mk_nodeID, mk_gcount, mk_split, mk_tasks, mk_unlocks, mk_made

makeVars == <<mk_policy, mk_nodeID, mk_gcount, mk_split, mk_tasks, mk_unlocks, mk_made>>

MakeParked ==
  /\ mk_policy = {}
  /\ mk_nodeID = << >>
  /\ mk_gcount = << >>
  /\ mk_split = FALSE
  /\ mk_tasks = << >>
  /\ mk_unlocks = {}
  /\ mk_made = FALSE

\* engine_exchange_cells on every node: the proxies of each node (its neighbouring nodes), each node's position in the function and the iterations its loop has left, the MPI requests of each proxy, the messages in flight, the payloads each proxy has received, and the proxies each node has called proxy_cells_exch2 on and unpacked, in order.
VARIABLES xc_peers, xc_pc, xc_iter, xc_req, xc_net, xc_got, xc_exch2, xc_unpacked

xchVars == <<xc_peers, xc_pc, xc_iter, xc_req, xc_net, xc_got, xc_exch2, xc_unpacked>>

XchParked ==
  /\ xc_peers = << >>
  /\ xc_pc = << >>
  /\ xc_iter = << >>
  /\ xc_req = << >>
  /\ xc_net = {}
  /\ xc_got = << >>
  /\ xc_exch2 = << >>
  /\ xc_unpacked = << >>

\* The link pool under concurrent calls of engine_addlink.
VARIABLES al_size, al_nr_links, al_links, al_heads, al_pc, al_ind, al_old, al_arg, al_err

alVars == <<al_size, al_nr_links, al_links, al_heads, al_pc, al_ind, al_old, al_arg, al_err>>

AddlinkParked ==
  /\ al_size = 0
  /\ al_nr_links = 0
  /\ al_links = << >>
  /\ al_heads = << >>
  /\ al_pc = << >>
  /\ al_ind = << >>
  /\ al_old = << >>
  /\ al_arg = << >>
  /\ al_err = ""

\* engine_makeproxies on the nodes of a run.
VARIABLES mp_cdim, mp_nodeID, mp_maxproxies, mp_proxy_ind, mp_proxies, mp_sendto, mp_err, mp_done

mpVars == <<mp_cdim, mp_nodeID, mp_maxproxies, mp_proxy_ind, mp_proxies, mp_sendto, mp_err, mp_done>>

ProxiesParked ==
  /\ mp_cdim = << >>
  /\ mp_nodeID = << >>
  /\ mp_maxproxies = 0
  /\ mp_proxy_ind = << >>
  /\ mp_proxies = << >>
  /\ mp_sendto = << >>
  /\ mp_err = << >>
  /\ mp_done = << >>

\* A black hole particle in black_hole_select_accretion_mode.
VARIABLES bh_eddington_fraction, bh_accretion_efficiency, bh_accretion_mode, bh_props, bh_selected

bhVars == <<bh_eddington_fraction, bh_accretion_efficiency, bh_accretion_mode, bh_props, bh_selected>>

BHParked ==
  /\ bh_eddington_fraction = 0
  /\ bh_accretion_efficiency = 0
  /\ bh_accretion_mode = ""
  /\ bh_props = << >>
  /\ bh_selected = FALSE

\* The dump and the particles' offsets of logger_log_part.
VARIABLES lg_count, lg_data, lg_first, lg_offset, lg_chain, lg_calls, lg_err

lgVars == <<lg_count, lg_data, lg_first, lg_offset, lg_chain, lg_calls, lg_err>>

LoggerParked ==
  /\ lg_count = 0
  /\ lg_data = << >>
  /\ lg_first = << >>
  /\ lg_offset = << >>
  /\ lg_chain = << >>
  /\ lg_calls = 0
  /\ lg_err = ""

\* The nodes of a run in engine_prepare.
VARIABLES pp_pc, pp_step, pp_repart, pp_forcerebuild, pp_rebuild, pp_sent, pp_entered, pp_took

ppVars == <<pp_pc, pp_step, pp_repart, pp_forcerebuild, pp_rebuild, pp_sent, pp_entered, pp_took>>

PrepareParked ==
  /\ pp_pc = << >>
  /\ pp_step = << >>
  /\ pp_repart = << >>
  /\ pp_forcerebuild = << >>
  /\ pp_rebuild = << >>
  /\ pp_sent = << >>
  /\ pp_entered = << >>
  /\ pp_took = << >>

\* engine_compute_next_snapshot_time on its own: the snapshot parameters, e->ti_current, e->ti_nextSnapshot and whether the call has returned.
VARIABLES sn_timeFirstSnapshot, sn_deltaTimeSnapshot, sn_ti_current, sn_ti_nextSnapshot, sn_pc

snVars == <<sn_timeFirstSnapshot, sn_deltaTimeSnapshot, sn_ti_current, sn_ti_nextSnapshot, sn_pc>>

SnapParked ==
  /\ sn_timeFirstSnapshot = 0
  /\ sn_deltaTimeSnapshot = 0
  /\ sn_ti_current = 0
  /\ sn_ti_nextSnapshot = 0
  /\ sn_pc = "off"

\* The state of the components that are followed on their own.
auxVars == <<linkVars, hashVars, gridVars, makeVars, xchVars, alVars, mpVars, bhVars, lgVars, ppVars, snVars>>

AuxParked == LinkParked /\ HashParked /\ GridParked /\ MakeParked /\ XchParked /\ AddlinkParked /\ ProxiesParked /\ BHParked /\ LoggerParked /\ PrepareParked /\ SnapParked

\* The number of runner threads (e->nr_threads); a runner's id is its tid.
NrThreads == 2

Threads == 0..(NrThreads - 1)

\* The largest integer time a cell's next time-step end is drawn from.
MaxTi == 2

\* The largest particle displacement since the last rebuild.
MaxDx == 1

\* The number of threads of the thread pool and the chunk size of a map.
NrMapThreads == 2

MapChunk == 9

\* The number of activation passes run in a row.
MaxPasses == 2

MapThreads == 1..NrMapThreads

Min(a, b) == IF a < b THEN a ELSE b

Max(a, b) == IF a > b THEN a ELSE b

\* c->h_max and c->dmin of the cells, in units of a tenth of a leaf cell.
\* The particles of cell 4 have small smoothing lengths.
h_max(c) == IF c = 4 THEN 1 ELSE 10

dmin(c) == IF c \in {2, 3} THEN 10 ELSE 20

\* space_maxreldx as the fraction space_maxreldx_num / space_maxreldx_den.
space_maxreldx_num == 8

space_maxreldx_den == 10

\* cell_is_active: the cell's next time-step end has been reached.
cell_is_active(c) == ti_end_min[c] <= ti_current

\* scheduler_activate on every task of S: the task is no longer skipped.
\* 0, the NULL task, names no task.
scheduler_activate(sk, S) ==
  CHOOSE r \in {[i \in DOMAIN sk |-> IF i \in T THEN 0 ELSE sk[i]] : T \in {S}} :
    TRUE

\* The walk over the send list of local cell c for the task addressed to
\* node n; 0 if the walk ends at NULL.
SendTo(subtype, c, n) ==
  LET S == {i \in SendLinks(tasks, nodeID, subtype, c) : nodeID[tasks[i].cj] = n}
  IN IF S = {} THEN 0 ELSE CHOOSE i \in S : \A j \in S : i <= j

\* The test with the relative displacement terms left out.
NeedsRebuildAbsoluteOnly(t) ==
  /\ t.tight = 1
  /\ Max(h_max(t.ci), h_max(t.cj)) + dx_max[t.ci] + dx_max[t.cj] > dmin(t.cj)

\* The "too much particle movement" test of a pair task.
NeedsRebuild(t) ==
  /\ t.tight = 1
  /\ \/ Max(h_max(t.ci), h_max(t.cj)) + dx_max[t.ci] + dx_max[t.cj] > dmin(t.cj)
     \/ space_maxreldx_den * dx_max[t.ci] > space_maxreldx_num * h_max(t.ci)
     \/ space_maxreldx_den * dx_max[t.cj] > space_maxreldx_num * h_max(t.cj)

\* "Set the sort flags" without the atomic_or on the flags of the sort task.
MarkSortNoFlags(st, t, c) ==
  IF BitSet(sorted[c], t.flags)
  THEN st
  ELSE [st EXCEPT !.skip = scheduler_activate(@, {Hier(tasks, "sort", c)})]

\* "Set the sort flags" for cell c of the pair task t.
MarkSort(st, t, c) ==
  IF BitSet(sorted[c], t.flags)
  THEN st
  ELSE [st EXCEPT !.sortflags[c] = AtomicOr(@, t.flags),
                  !.skip = scheduler_activate(@, {Hier(tasks, "sort", c)})]

\* "Activate the send/recv flags" with the rho and tend tasks activated
\* whichever cell is active.
MarkCommEitherActive(st, cf, cl) ==
  LET recv == {TaskOf(tasks, "recv", "xv", cf), TaskOf(tasks, "recv", "rho", cf),
               TaskOf(tasks, "recv", "tend", cf)}
      send == {SendTo("xv", cl, nodeID[cf]), Hier(tasks, "drift", super(cl)),
               SendTo("rho", cl, nodeID[cf]), SendTo("tend", cl, nodeID[cf])}
  IN [st EXCEPT !.skip = scheduler_activate(@, recv \cup send)]

MarkCommNoDrift(st, cf, cl) ==
  LET recv == {TaskOf(tasks, "recv", "xv", cf)}
              \cup (IF cell_is_active(cf)
                    THEN {TaskOf(tasks, "recv", "rho", cf),
                          TaskOf(tasks, "recv", "tend", cf)}
                    ELSE {})
      send == {SendTo("xv", cl, nodeID[cf])}
              \cup (IF cell_is_active(cl)
                    THEN {SendTo("rho", cl, nodeID[cf]),
                          SendTo("tend", cl, nodeID[cf])}
                    ELSE {})
  IN [st EXCEPT !.skip = scheduler_activate(@, recv \cup send)]

\* "Activate the send/recv flags" (WITH_MPI) for the foreign cell cf and the
\* local cell cl of an activated pair or sub_pair density task.
MarkComm(st, cf, cl) ==
  LET recv == {TaskOf(tasks, "recv", "xv", cf)}
              \cup (IF cell_is_active(cf)
                    THEN {TaskOf(tasks, "recv", "rho", cf),
                          TaskOf(tasks, "recv", "tend", cf)}
                    ELSE {})
      send == {SendTo("xv", cl, nodeID[cf]), Hier(tasks, "drift", super(cl))}
              \cup (IF cell_is_active(cl)
                    THEN {SendTo("rho", cl, nodeID[cf]),
                          SendTo("tend", cl, nodeID[cf])}
                    ELSE {})
  IN [st EXCEPT !.skip = scheduler_activate(@, recv \cup send)]

\* The body of the loop of engine_marktasks_mapper for the task at index
\* ind, on the record st of the fields the mapper writes.
mapper_iteration(st, ind) ==
  LET t == tasks[ind]
      activated == [st EXCEPT !.skip = scheduler_activate(@, {ind})]
  IN IF t.type \in {"self", "ghost", "extra_ghost", "cooling", "sourceterms",
                    "sub_self"}
     THEN IF cell_is_active(t.ci) THEN activated ELSE st
     ELSE IF t.type \in {"pair", "sub_pair"}
     THEN LET st1 == IF NeedsRebuild(t)
                     THEN [st EXCEPT !.rebuild_space = 1] ELSE st
              st2 == [st1 EXCEPT !.skip = scheduler_activate(@, {ind})]
              st3 == IF t.type = "pair"
                     THEN MarkSort(MarkSort(st2, t, t.ci), t, t.cj) ELSE st2
          IN IF ~(cell_is_active(t.ci) \/ cell_is_active(t.cj)) THEN st1
             ELSE IF t.subtype # "density" THEN st2
             ELSE IF nodeID[t.ci] # engine_rank THEN MarkComm(st3, t.ci, t.cj)
             ELSE IF nodeID[t.cj] # engine_rank THEN MarkComm(st3, t.cj, t.ci)
             ELSE st3
     ELSE IF t.type \in {"kick1", "kick2", "drift", "init"}
     THEN IF cell_is_active(t.ci) THEN activated ELSE st
     ELSE IF t.type = "timestep"
     THEN LET r == [st EXCEPT !.updated[t.ci] = 0, !.g_updated[t.ci] = 0,
                              !.s_updated[t.ci] = 0]
          IN IF cell_is_active(t.ci)
             THEN [r EXCEPT !.skip = scheduler_activate(@, {ind})] ELSE r
     ELSE IF t.type \in {"grav_gather_m", "grav_fft"}
     THEN activated
     ELSE st

\* engine_marktasks_mapper on the chunk of tasks first..last.  (The state
\* after an iteration is bound as the element of a singleton set, which
\* gives the next iteration a value instead of an unevaluated expression.)
RECURSIVE engine_marktasks_mapper(_, _, _)
engine_marktasks_mapper(st, first, last) ==
  IF first > last THEN st
  ELSE CHOOSE r \in {engine_marktasks_mapper(v, first + 1, last) :
                        v \in {mapper_iteration(st, first)}} : TRUE

(***************************************************************************)
(* The activation pass.  engine_marktasks maps engine_marktasks_mapper     *)
(* over the task array with the thread pool: the threads take chunks of    *)
(* MapChunk tasks from a shared cursor and run the mapper on their chunk.   *)
(* The writes of the mapper are atomic operations that commute (clearing a *)
(* skip flag, or-ing a bit, storing the constants 1 and 0), so the run of  *)
(* the mapper on one chunk is taken as one step.                           *)
(***************************************************************************)
CfgWith(times, masks, dxs) ==
  /\ nodeID \in {[c \in Cells |-> IF c = 4 THEN n ELSE engine_rank] :
                   n \in {engine_rank, ForeignNode}}
  /\ policy \in Policies
  /\ ti_current = 1
  /\ \E a \in times :
        ti_end_min = [c \in Cells |-> IF c = 1 THEN Min(a[2], a[3]) ELSE a[c]]
  /\ \E m \in [{2, 3} -> masks] :
        sorted = [c \in Cells |-> IF c \in {2, 3} THEN m[c] ELSE 0]
  /\ \E d \in dxs, d4 \in {0, MaxDx} :
        /\ d + d4 \in dxs
        /\ dx_max = [c \in Cells |-> IF c \in {1, 2} THEN d
                                     ELSE IF c = 4 THEN d4 ELSE 0]
  /\ tasks = MakeTasks(nodeID, policy)
  /\ unlocks = MakeUnlocks(tasks, nodeID, policy)

\* The next time-step ends of the leaf cells 2, 3 and of cell 4.
Times == [{2, 3, 4} -> 1..MaxTi]

InitCfg == CfgWith(Times, {0, Pow2(SidA)}, 0..MaxDx)

\* The state of the pass before it is run: every task is skipped, and the
\* cells carry the update counts of the step before.
InitMarkVars ==
  /\ skip = [i \in DOMAIN tasks |-> 1]
  /\ sortflags = [c \in Cells |-> 0]
  /\ updated = [c \in Cells |-> 1]
  /\ g_updated = [c \in Cells |-> 1]
  /\ s_updated = [c \in Cells |-> 1]
  /\ rebuild_space = 0
  /\ mphase = "idle"
  /\ cursor = 1
  /\ mpos = [k \in MapThreads |-> 1]
  /\ mend = [k \in MapThreads |-> 0]
  /\ mpass = 0
  /\ snap = [skip |-> skip, sortflags |-> sortflags]

\* The engine between two launches: every runner is parked in engine_barrier
\* and the engine holds the barrier mutex.
LaunchParked ==
  /\ barrier_running = 0
  /\ barrier_launch = 0
  /\ barrier_launchcount = 0
  /\ mutex = "engine"
  /\ woken = {}
  /\ ewoken = FALSE
  /\ epc = "idle"
  /\ wpc = [w \in Threads |-> "cwait"]
  /\ cur = [w \in Threads |-> 0]
  /\ waiting = 0
  /\ wait = [i \in DOMAIN tasks |-> 0]
  /\ tstate = [i \in DOMAIN tasks |-> "idle"]
  /\ passes = [w \in Threads |-> 0]
  /\ execs = [i \in DOMAIN tasks |-> 0]

\* The fields the mapper writes, as the record it is applied to.
MarkState ==
  [skip |-> skip, sortflags |-> sortflags, updated |-> updated,
   g_updated |-> g_updated, s_updated |-> s_updated,
   rebuild_space |-> rebuild_space]

\* engine_marktasks up to the call of threadpool_map.
engine_marktasks ==
  /\ mphase = "idle"
  /\ mpass < MaxPasses
  /\ mphase' = "map"
  /\ rebuild_space' = 0
  /\ cursor' = 1
  /\ UNCHANGED <<skip, sortflags, updated, g_updated, s_updated, mpos, mend,
                 mpass, snap>>
  /\ UNCHANGED <<cfgVars, stepVars, auxVars, launchVars, moveVars>>

\* A thread of the pool takes the next chunk of the map.
threadpool_chunk(k) ==
  /\ mphase = "map"
  /\ mpos[k] > mend[k]
  /\ cursor <= Len(tasks)
  /\ mpos' = [mpos EXCEPT ![k] = cursor]
  /\ mend' = [mend EXCEPT ![k] = Min(cursor + MapChunk - 1, Len(tasks))]
  /\ cursor' = cursor + MapChunk
  /\ UNCHANGED <<skip, sortflags, updated, g_updated, s_updated, rebuild_space,
                 mphase, mpass, snap>>
  /\ UNCHANGED <<cfgVars, stepVars, auxVars, launchVars, moveVars>>

\* A thread of the pool runs engine_marktasks_mapper on its chunk.
mapper_step(k) ==
  /\ mphase = "map"
  /\ mpos[k] <= mend[k]
  /\ LET st == engine_marktasks_mapper(MarkState, mpos[k], mend[k])
     IN /\ skip' = st.skip
        /\ sortflags' = st.sortflags
        /\ updated' = st.updated
        /\ g_updated' = st.g_updated
        /\ s_updated' = st.s_updated
        /\ rebuild_space' = st.rebuild_space
  /\ mpos' = [mpos EXCEPT ![k] = mend[k] + 1]
  /\ UNCHANGED <<mphase, cursor, mend, mpass, snap>>
  /\ UNCHANGED <<cfgVars, stepVars, auxVars, launchVars, moveVars>>

\* threadpool_map has handed out and finished every chunk: engine_marktasks
\* returns rebuild_space.  snap records the outcome of the first pass.
engine_marktasks_return ==
  /\ mphase = "map"
  /\ cursor > Len(tasks)
  /\ \A k \in MapThreads : mpos[k] > mend[k]
  /\ mphase' = "idle"
  /\ mpass' = mpass + 1
  /\ snap' = IF mpass = 0 THEN [skip |-> skip, sortflags |-> sortflags] ELSE snap
  /\ UNCHANGED <<skip, sortflags, updated, g_updated, s_updated, rebuild_space,
                 cursor, mpos, mend>>
  /\ UNCHANGED <<cfgVars, stepVars, auxVars, launchVars, moveVars>>

vars == <<cfgVars, markVars, launchVars, moveVars, stepVars, auxVars>>

InitMark ==
  InitCfg /\ InitMarkVars /\ LaunchParked /\ MoveParked /\ StepParked
  /\ AuxParked

NextMark ==
  \/ engine_marktasks
  \/ \E k \in MapThreads : threadpool_chunk(k)
  \/ \E k \in MapThreads : mapper_step(k)
  \/ engine_marktasks_return

SpecMark == InitMark /\ [][NextMark]_vars

(***************************************************************************)
(* Properties of the activation pass.                                      *)
(***************************************************************************)
\* A pass has returned and none is running.
MarkDone == mphase = "idle" /\ mpass >= 1

SingleCellTypes ==
  {"self", "sub_self", "ghost", "extra_ghost", "cooling", "sourceterms",
   "kick1", "kick2", "drift", "init", "timestep"}

PairTypes == {"pair", "sub_pair"}

\* The single-cell task i is active iff its cell is.
SingleRule(i) == skip[i] = 0 <=> cell_is_active(tasks[i].ci)

\* The pair task i is active iff one of its cells is.
PairRule(i) ==
  skip[i] = 0 <=> (cell_is_active(tasks[i].ci) \/ cell_is_active(tasks[i].cj))

\* The self or pair task i is skipped when it touches no active cell.
UntouchedRule(i) ==
  (/\ tasks[i].type \in {"self", "pair"}
   /\ ~cell_is_active(tasks[i].ci)
   /\ (tasks[i].cj = 0 \/ ~cell_is_active(tasks[i].cj)))
  => skip[i] = 1

\* The drift task i sits on the super cell of a local cell that takes part
\* in an activated pair or sub_pair density task with a foreign cell.
DriftNeededForSend(i) ==
  \E j \in DOMAIN tasks :
    /\ tasks[j].type \in PairTypes /\ tasks[j].subtype = "density"
    /\ (cell_is_active(tasks[j].ci) \/ cell_is_active(tasks[j].cj))
    /\ \/ /\ nodeID[tasks[j].ci] # engine_rank
          /\ super(tasks[j].cj) = tasks[i].ci
       \/ /\ nodeID[tasks[j].ci] = engine_rank
          /\ nodeID[tasks[j].cj] # engine_rank
          /\ super(tasks[j].ci) = tasks[i].ci

\* C1 as stated: after an activation pass every single-cell task, the drift
\* tasks included, is active iff its cell is active, every pair or sub_pair
\* task is active iff one of its cells is active, and every self or pair
\* task that touches no active cell is skipped.
ActiveIffCellActive ==
  MarkDone =>
    \A i \in DOMAIN tasks :
      /\ tasks[i].type \in SingleCellTypes => SingleRule(i)
      /\ tasks[i].type \in PairTypes => PairRule(i)
      /\ UntouchedRule(i)

\* C1 amended: as C1, except that a drift task is active iff its cell is
\* active or a local cell under it takes part in an activated pair or
\* sub_pair density task with a foreign cell (the drift before a send).
ActiveIffCellActiveOrSendDrift ==
  MarkDone =>
    \A i \in DOMAIN tasks :
      /\ tasks[i].type \in SingleCellTypes \ {"drift"} => SingleRule(i)
      /\ tasks[i].type = "drift" =>
           (skip[i] = 0 <=> (cell_is_active(tasks[i].ci) \/ DriftNeededForSend(i)))
      /\ tasks[i].type \in PairTypes => PairRule(i)
      /\ UntouchedRule(i)

\* C1 witness: a pass has returned with the drift task of an inactive cell
\* activated for a send, next to a skipped and an activated loop task.
DriftActiveOnInactiveCell ==
  /\ MarkDone
  /\ \E i \in DOMAIN tasks :
       tasks[i].type = "drift" /\ ~cell_is_active(tasks[i].ci) /\ skip[i] = 0
  /\ \E i, j \in DOMAIN tasks :
       IsLoop(tasks[i]) /\ IsLoop(tasks[j]) /\ skip[i] = 0 /\ skip[j] = 1

\* C10: a second activation pass in a row leaves the set of active tasks
\* and the flags of the sort tasks as the first pass left them.
SecondPassChangesNothing ==
  (mphase = "idle" /\ mpass >= 2) =>
    (skip = snap.skip /\ sortflags = snap.sortflags)

\* C10 witness: two passes have returned, with active and skipped tasks and
\* with a sort flag set.
TwoPassesWithSortFlags ==
  /\ mphase = "idle" /\ mpass = 2
  /\ \E i, j \in DOMAIN tasks : skip[i] = 0 /\ skip[j] = 1
  /\ \E c \in Cells : sortflags[c] # 0

\* The displacement test of the rebuild trigger on the cells of task t.
MovedTooMuch(t) ==
  \/ Max(h_max(t.ci), h_max(t.cj)) + dx_max[t.ci] + dx_max[t.cj] > dmin(t.cj)
  \/ space_maxreldx_den * dx_max[t.ci] > space_maxreldx_num * h_max(t.ci)
  \/ space_maxreldx_den * dx_max[t.cj] > space_maxreldx_num * h_max(t.cj)

\* C11: engine_marktasks returns that a rebuild is needed iff some pair or
\* sub_pair task has cells that moved too much, however the thread pool
\* split the task array.
RebuildIffSomePairMoved ==
  MarkDone =>
    (rebuild_space = 1 <=>
       \E i \in DOMAIN tasks :
          tasks[i].type \in PairTypes /\ MovedTooMuch(tasks[i]))

\* C11 witness: a pass split over chunks has returned that a rebuild is
\* needed, with only the relative displacement of a cell over the limit.
RebuildForRelativeMove ==
  /\ MarkDone /\ rebuild_space = 1
  /\ Len(tasks) > MapChunk
  /\ \A i \in DOMAIN tasks :
        tasks[i].type \in PairTypes =>
          Max(h_max(tasks[i].ci), h_max(tasks[i].cj)) + dx_max[tasks[i].ci]
            + dx_max[tasks[i].cj] <= dmin(tasks[i].cj)

\* engine_maketasks has made the graph and no activation pass has run on
\* it yet.  (The pass leaves tasks and unlocks as they are.)
GraphMade == mphase = "idle" /\ mpass = 0

\* The task indices of the given type on cell c.
TasksOn(type, c) == {i \in DOMAIN tasks : tasks[i].type = type /\ tasks[i].ci = c}

HierTypes == {"init", "kick1", "kick2", "drift", "timestep"}

\* C14: after engine_maketasks every local super cell has exactly one init,
\* kick1, kick2, drift and timestep task, with the unlock edges kick1 ->
\* drift, drift -> init, kick2 -> timestep and, with cooling, cooling ->
\* kick2; a foreign cell and a cell that is not a super cell have none.
OneHierarchyPerLocalSuper ==
  GraphMade =>
  \A c \in Cells :
    IF super(c) = c /\ nodeID[c] = engine_rank
    THEN /\ \A ty \in HierTypes : Cardinality(TasksOn(ty, c)) = 1
         /\ <<Hier(tasks, "kick1", c), Hier(tasks, "drift", c)>> \in unlocks
         /\ <<Hier(tasks, "drift", c), Hier(tasks, "init", c)>> \in unlocks
         /\ <<Hier(tasks, "kick2", c), Hier(tasks, "timestep", c)>> \in unlocks
         /\ "cooling" \in policy =>
              /\ Cardinality(TasksOn("cooling", c)) = 1
              /\ <<Hier(tasks, "cooling", c), Hier(tasks, "kick2", c)>> \in unlocks
    ELSE \A ty \in HierTypes : TasksOn(ty, c) = {}

\* C14 witness: a graph made with cooling for a local super cell with
\* cells under it next to a foreign super cell.
HierarchyNextToForeignCell ==
  /\ GraphMade
  /\ nodeID[4] # engine_rank /\ "cooling" \in policy
  /\ Hier(tasks, "cooling", 1) # 0 /\ Hier(tasks, "timestep", 1) # 0
  /\ \E i \in DOMAIN tasks : tasks[i].type = "recv" /\ tasks[i].ci = 4

\* The force twin of the density-loop task i: 0 if there is none.
ForceTwin(i) ==
  LET S == {j \in DOMAIN tasks :
              /\ tasks[j].subtype = "force" /\ tasks[j].type = tasks[i].type
              /\ tasks[j].ci = tasks[i].ci /\ tasks[j].cj = tasks[i].cj}
  IN IF S = {} THEN 0 ELSE CHOOSE j \in S : TRUE

\* The local cells the task t involves.
LocalCellsOf(t) == {c \in {t.ci, t.cj} \ {0} : nodeID[c] = engine_rank}

\* The edges init -> t -> ghost -> force twin of the density-loop task i on
\* the super cell of c.
DensityChain(i, c) ==
  /\ ForceTwin(i) # 0
  /\ Hier(tasks, "init", super(c)) # 0 /\ Hier(tasks, "ghost", super(c)) # 0
  /\ Hier(tasks, "kick2", super(c)) # 0
  /\ <<Hier(tasks, "init", super(c)), i>> \in unlocks
  /\ <<i, Hier(tasks, "ghost", super(c))>> \in unlocks
  /\ <<Hier(tasks, "ghost", super(c)), ForceTwin(i)>> \in unlocks

ActivePairDensity ==
  {i \in DOMAIN tasks : /\ tasks[i].type = "pair" /\ tasks[i].subtype = "density"
                        /\ skip[i] = 0}

\* The sort task of cell c is active with bit f of its flags set.
SortActiveFor(c, f) ==
  /\ Hier(tasks, "sort", c) # 0
  /\ skip[Hier(tasks, "sort", c)] = 0
  /\ BitSet(sortflags[c], f)

\* C16 as stated: when the pass has activated a pair density task with
\* axis flag f, the sort tasks of both cells are active with bit f set.
SortsActiveForPair ==
  MarkDone =>
    \A i \in ActivePairDensity :
      \A c \in {tasks[i].ci, tasks[i].cj} : SortActiveFor(c, tasks[i].flags)

\* C16 amended: when the pass has activated a pair density task with axis
\* flag f, the sort task of each of its cells that is not yet sorted along
\* f is active with bit f set.
SortsActiveForUnsortedCells ==
  MarkDone =>
    \A i \in ActivePairDensity :
      \A c \in {tasks[i].ci, tasks[i].cj} :
        BitSet(sorted[c], tasks[i].flags) \/ SortActiveFor(c, tasks[i].flags)

\* C16 witness: a pass has activated a pair density task with one cell
\* sorted along its axis, whose sort task stays skipped, and the other not.
SortOnlyForUnsortedCell ==
  /\ MarkDone
  /\ \E i \in ActivePairDensity :
       /\ BitSet(sorted[tasks[i].ci], tasks[i].flags)
       /\ skip[Hier(tasks, "sort", tasks[i].ci)] = 1
       /\ ~BitSet(sorted[tasks[i].cj], tasks[i].flags)
       /\ SortActiveFor(tasks[i].cj, tasks[i].flags)

\* The activated pair and sub_pair density tasks with a foreign cell, as
\* records of the task, its foreign cell cf and its local cell cl.
ActiveForeignDensity ==
  {[t |-> i,
    cf |-> IF nodeID[tasks[i].ci] # engine_rank THEN tasks[i].ci ELSE tasks[i].cj,
    cl |-> IF nodeID[tasks[i].ci] # engine_rank THEN tasks[i].cj ELSE tasks[i].ci] :
     i \in {j \in DOMAIN tasks :
              /\ tasks[j].type \in PairTypes /\ tasks[j].subtype = "density"
              /\ skip[j] = 0
              /\ (nodeID[tasks[j].ci] # engine_rank
                  \/ nodeID[tasks[j].cj] # engine_rank)}}

\* The task at index i exists and is active.
Activated(i) == i # 0 /\ skip[i] = 0

\* C17 as stated: when the pass has activated a pair or sub_pair density
\* task with a foreign cell, the recv_xv, recv_rho and recv_ti tasks of the
\* foreign cell and the send_xv, send_rho and send_ti tasks of the local
\* cell to the node of the foreign cell are active, whichever cell is active.
AllCommActiveForForeignPair ==
  MarkDone =>
    \A r \in ActiveForeignDensity :
      \A k \in {"xv", "rho", "tend"} :
        /\ Activated(TaskOf(tasks, "recv", k, r.cf))
        /\ Activated(SendTo(k, r.cl, nodeID[r.cf]))

\* C17 amended: when the pass has activated a pair or sub_pair density
\* task with a foreign cell, recv_xv of the foreign cell and send_xv of the
\* local cell are active; recv_rho and recv_ti are active iff the foreign
\* cell is active, send_rho and send_ti iff the local cell is active.
CommActiveForActiveCell ==
  MarkDone =>
    \A r \in ActiveForeignDensity :
      /\ Activated(TaskOf(tasks, "recv", "xv", r.cf))
      /\ Activated(SendTo("xv", r.cl, nodeID[r.cf]))
      /\ \A k \in {"rho", "tend"} :
           /\ TaskOf(tasks, "recv", k, r.cf) # 0
           /\ SendTo(k, r.cl, nodeID[r.cf]) # 0
           /\ Activated(TaskOf(tasks, "recv", k, r.cf)) <=> cell_is_active(r.cf)
           /\ Activated(SendTo(k, r.cl, nodeID[r.cf])) <=> cell_is_active(r.cl)

\* C17 witness: a pass has activated a density task between an active local
\* cell and an inactive foreign cell: send_rho is active, recv_rho skipped.
SendWithoutRecvRho ==
  /\ MarkDone
  /\ \E r \in ActiveForeignDensity :
       /\ cell_is_active(r.cl) /\ ~cell_is_active(r.cf)
       /\ Activated(SendTo("rho", r.cl, nodeID[r.cf]))
       /\ skip[TaskOf(tasks, "recv", "rho", r.cf)] = 1
       /\ Activated(TaskOf(tasks, "recv", "xv", r.cf))

\* The number k of a payload kind in a message tag.
KindNo(subtype) ==
  IF subtype = "xv" THEN 0 ELSE IF subtype = "rho" THEN 1
  ELSE IF subtype = "tend" THEN 2 ELSE 3

Range(s) == {s[i] : i \in DOMAIN s}

\* The send tasks the node that owns the foreign cell 4 makes for it towards
\* this node, and the recv tasks it makes for the cell 1 of this node: the
\* same functions run there on the same cells and density tasks.
OwnerSends == Range(engine_addtasks_send(tasks, nodeID, 4, 1))
OwnerRecvs == Range(engine_addtasks_recv(tasks, 1))

\* The communication tasks of this node.
CommTasks == {tasks[i] : i \in {j \in DOMAIN tasks : tasks[j].type \in {"send", "recv"}}}

\* C18: for a cell shared through a proxy the send task of the owning node
\* and the recv task of the receiving node for the same payload carry the
\* tag 4 * cell_tag + k, and communication tasks of different (cell tag,
\* kind) pairs carry different tags.
SendRecvTagsMatch ==
  (GraphMade /\ nodeID[4] # engine_rank) =>
    /\ \A r \in {t \in CommTasks : t.type = "recv"} :
         /\ r.flags = 4 * tag(r.ci) + KindNo(r.subtype)
         /\ \E s \in OwnerSends :
              s.ci = r.ci /\ s.subtype = r.subtype /\ s.flags = r.flags
    /\ \A s \in {t \in CommTasks : t.type = "send"} :
         /\ s.flags = 4 * tag(s.ci) + KindNo(s.subtype)
         /\ \E r \in OwnerRecvs :
              r.ci = s.ci /\ r.subtype = s.subtype /\ r.flags = s.flags
    /\ \A a, b \in CommTasks \cup OwnerSends \cup OwnerRecvs :
         a.flags = b.flags => (tag(a.ci) = tag(b.ci) /\ a.subtype = b.subtype)

\* C18 witness: a graph with the three recv tasks of a foreign cell and
\* the three send tasks of a local cell.
SendAndRecvOfEveryKind ==
  /\ GraphMade
  /\ \A k \in {"xv", "rho", "tend"} :
       /\ TaskOf(tasks, "recv", k, 4) # 0
       /\ TaskOf(tasks, "send", k, 1) # 0
  /\ Cardinality(OwnerSends) = 3 /\ Cardinality(OwnerRecvs) = 3

(***************************************************************************)
(* The launch.  The engine thread runs engine_launch; every runner thread  *)
(* loops over engine_barrier and the consume loop of the scheduler.  The   *)
(* barrier mutex is held by the engine except while it waits on the        *)
(* condition and while it runs scheduler_start; a runner holds it only     *)
(* for the body of engine_barrier, which is one step.  woken and ewoken    *)
(* are the waiters of barrier_cond that a broadcast has woken and that     *)
(* have not yet re-acquired the mutex.                                     *)
(***************************************************************************)
\* The outcome of one activation pass from the all-skipped state.
Marked ==
  engine_marktasks_mapper(
    [skip |-> [i \in DOMAIN tasks |-> 1], sortflags |-> [c \in Cells |-> 0],
     updated |-> [c \in Cells |-> 1], g_updated |-> [c \in Cells |-> 1],
     s_updated |-> [c \in Cells |-> 1], rebuild_space |-> 0],
    1, Len(tasks))

\* The launch is run for the time-step patterns in which the two leaves of
\* cell 1 end their time step together, now (1) or later (2), and cell 4
\* ends it at the other time; the cells are sorted, so that no sort task
\* is activated.
LaunchTimes == {a \in [{2, 3, 4} -> {1, 2}] : a[2] = a[3] /\ a[4] # a[2]}

\* The state engine_init leaves: the runners have been created and counted
\* in barrier_running, and the engine waits for them to be in place.
InitLaunch ==
  /\ CfgWith(LaunchTimes, {Pow2(SidA)}, {0})
  /\ StepParked
  /\ AuxParked
  /\ skip = Marked.skip
  /\ sortflags = Marked.sortflags
  /\ updated = Marked.updated
  /\ g_updated = Marked.g_updated
  /\ s_updated = Marked.s_updated
  /\ rebuild_space = Marked.rebuild_space
  /\ mphase = "idle"
  /\ cursor = Len(tasks) + 1
  /\ mpos = [k \in MapThreads |-> 1]
  /\ mend = [k \in MapThreads |-> 0]
  /\ mpass = 1
  /\ snap = [skip |-> skip, sortflags |-> sortflags]
  /\ barrier_running = NrThreads
  /\ barrier_launch = 0
  /\ barrier_launchcount = 0
  /\ mutex = "free"
  /\ woken = {}
  /\ ewoken = FALSE
  /\ epc = "init_wait"
  /\ wpc = [w \in Threads |-> "enter"]
  /\ cur = [w \in Threads |-> 0]
  /\ waiting = 0
  /\ wait = [i \in DOMAIN tasks |-> 0]
  /\ tstate = [i \in DOMAIN tasks |-> "idle"]
  /\ passes = [w \in Threads |-> 0]
  /\ execs = [i \in DOMAIN tasks |-> 0]
  /\ MoveParked

\* The runners and the engine waiting on barrier_cond.
Waiters == {w \in Threads : wpc[w] = "cwait"}

EngineWaiting == epc \in {"init_wait", "wait"}

\* The test of the wait loop of engine_barrier for thread tid.
BarrierClosed(tid) == barrier_launch = 0 \/ tid >= barrier_launchcount

\* engine_barrier from its entry, for a runner that finds the barrier open
\* or closed.
engine_barrier(w) ==
  /\ wpc[w] = "enter"
  /\ mutex = "free"
  /\ LET all_in == barrier_running - 1 = 0
     IN IF BarrierClosed(w)
        THEN /\ barrier_running' = barrier_running - 1
             /\ wpc' = [wpc EXCEPT ![w] = "cwait"]
             /\ woken' = IF all_in THEN Waiters ELSE woken
             /\ ewoken' = IF all_in THEN EngineWaiting ELSE ewoken
             /\ UNCHANGED <<barrier_launch, passes>>
        ELSE /\ barrier_running' = barrier_running
             /\ barrier_launch' = barrier_launch - 1
             /\ wpc' = [wpc EXCEPT ![w] = "consume"]
             /\ passes' = [passes EXCEPT ![w] = @ + 1]
             /\ woken' = IF all_in \/ barrier_launch = 1 THEN Waiters ELSE woken
             /\ ewoken' = IF all_in \/ barrier_launch = 1
                          THEN EngineWaiting ELSE ewoken
  /\ UNCHANGED <<barrier_launchcount, mutex, epc, cur, waiting, wait, tstate,
                 execs>>
  /\ UNCHANGED <<cfgVars, stepVars, auxVars, markVars, moveVars>>

\* engine_barrier from pthread_cond_wait, for a runner that was woken.
engine_barrier_wake(w) ==
  /\ wpc[w] = "cwait"
  /\ w \in woken
  /\ mutex = "free"
  /\ IF BarrierClosed(w)
     THEN /\ woken' = woken \ {w}
          /\ UNCHANGED <<barrier_running, barrier_launch, wpc, passes, ewoken>>
     ELSE /\ barrier_running' = barrier_running + 1
          /\ barrier_launch' = barrier_launch - 1
          /\ wpc' = [wpc EXCEPT ![w] = "consume"]
          /\ passes' = [passes EXCEPT ![w] = @ + 1]
          /\ woken' = IF barrier_launch = 1 THEN Waiters \ {w} ELSE woken \ {w}
          /\ ewoken' = IF barrier_launch = 1 THEN EngineWaiting ELSE ewoken
  /\ UNCHANGED <<barrier_launchcount, mutex, epc, cur, waiting, wait, tstate,
                 execs>>
  /\ UNCHANGED <<cfgVars, stepVars, auxVars, markVars, moveVars>>

\* The activated tasks that unlock task i.
ActivePreds(i) == {a \in DOMAIN tasks : <<a, i>> \in unlocks /\ skip[a] = 0}

\* The cells a task locks for the time it runs: the loop tasks and the sort
\* tasks lock their cells; the other tasks take no cell lock.
LockCells(t) ==
  IF IsLoop(t) \/ t.type = "sort" THEN {t.ci, t.cj} \ {0} ELSE {}

\* Two tasks cannot hold their cell locks together: a cell of one is a cell
\* of the other, or lies above or below it in the tree.
LockConflict(t1, t2) ==
  \E a \in LockCells(t1), b \in LockCells(t2) : a \in Under(b) \/ b \in Under(a)

LaunchPendingIgnoresRunning == barrier_launch # 0

\* The test of the wait loop of engine_launch: runners are still to be
\* released or still running.
LaunchPending == barrier_launch # 0 \/ barrier_running # 0

\* engine_init, from its wait for the runners to be in place.
engine_init_wake ==
  /\ epc = "init_wait"
  /\ ewoken
  /\ mutex = "free"
  /\ ewoken' = FALSE
  /\ IF barrier_running # 0 \/ barrier_launch # 0
     THEN UNCHANGED <<epc, mutex>>
     ELSE epc' = "idle" /\ mutex' = "engine"
  /\ UNCHANGED <<barrier_running, barrier_launch, barrier_launchcount, woken,
                 wpc, cur, waiting, wait, tstate, passes, execs>>
  /\ UNCHANGED <<cfgVars, stepVars, auxVars, markVars, moveVars>>

\* engine_launch up to the release of the barrier mutex without the
\* atomic_inc of sched.waiting.
engine_launch_no_safeguard(nr_runners) ==
  /\ epc \in {"idle", "returned"}
  /\ waiting' = waiting
  /\ barrier_launch' = nr_runners
  /\ barrier_launchcount' = nr_runners
  /\ woken' = Waiters
  /\ ewoken' = FALSE
  /\ mutex' = "free"
  /\ epc' = "open"
  /\ passes' = [w \in Threads |-> 0]
  /\ execs' = [i \in DOMAIN tasks |-> 0]
  /\ UNCHANGED <<barrier_running, wpc, cur, wait, tstate>>
  /\ UNCHANGED <<cfgVars, stepVars, auxVars, markVars, moveVars>>

\* engine_launch(e, nr_runners) up to the release of the barrier mutex:
\* the safeguard on sched.waiting, the opening of the barrier, the broadcast.
engine_launch(nr_runners) ==
  /\ epc \in {"idle", "returned"}
  /\ waiting' = waiting + 1
  /\ barrier_launch' = nr_runners
  /\ barrier_launchcount' = nr_runners
  /\ woken' = Waiters
  /\ ewoken' = FALSE
  /\ mutex' = "free"
  /\ epc' = "open"
  /\ passes' = [w \in Threads |-> 0]
  /\ execs' = [i \in DOMAIN tasks |-> 0]
  /\ UNCHANGED <<barrier_running, wpc, cur, wait, tstate>>
  /\ UNCHANGED <<cfgVars, stepVars, auxVars, markVars, moveVars>>

\* scheduler_start: every activated task waits for its activated unlockers,
\* and the activated tasks that wait for none are enqueued.
scheduler_start ==
  /\ epc = "open"
  /\ LET w0 == [i \in DOMAIN tasks |->
                  IF skip[i] = 0 THEN Cardinality(ActivePreds(i)) ELSE 0]
         ready == {i \in DOMAIN tasks : skip[i] = 0 /\ w0[i] = 0}
     IN /\ wait' = w0
        /\ tstate' = [i \in DOMAIN tasks |->
                        IF i \in ready THEN "queued" ELSE "idle"]
        /\ waiting' = waiting + Cardinality(ready)
  /\ epc' = "loaded"
  /\ UNCHANGED <<barrier_running, barrier_launch, barrier_launchcount, mutex,
                 woken, ewoken, wpc, cur, passes, execs>>
  /\ UNCHANGED <<cfgVars, stepVars, auxVars, markVars, moveVars>>

\* engine_launch without the removal of the safeguard count on sched.waiting.
engine_launch_wait_keeps_safeguard ==
  /\ epc = "loaded"
  /\ mutex = "free"
  /\ waiting' = waiting
  /\ ewoken' = FALSE
  /\ IF LaunchPending
     THEN epc' = "wait" /\ mutex' = "free"
     ELSE epc' = "returned" /\ mutex' = "engine"
  /\ UNCHANGED <<barrier_running, barrier_launch, barrier_launchcount, woken,
                 wpc, cur, wait, tstate, passes, execs>>
  /\ UNCHANGED <<cfgVars, stepVars, auxVars, markVars, moveVars>>

\* engine_launch from its second lock of the barrier mutex: the safeguard
\* is removed and the engine tests whether the runners are home.
engine_launch_wait ==
  /\ epc = "loaded"
  /\ mutex = "free"
  /\ waiting' = waiting - 1
  /\ ewoken' = FALSE
  /\ IF LaunchPending
     THEN epc' = "wait" /\ mutex' = "free"
     ELSE epc' = "returned" /\ mutex' = "engine"
  /\ UNCHANGED <<barrier_running, barrier_launch, barrier_launchcount, woken,
                 wpc, cur, wait, tstate, passes, execs>>
  /\ UNCHANGED <<cfgVars, stepVars, auxVars, markVars, moveVars>>

\* engine_launch from pthread_cond_wait, when the engine was woken.
engine_launch_wake ==
  /\ epc = "wait"
  /\ ewoken
  /\ mutex = "free"
  /\ ewoken' = FALSE
  /\ IF LaunchPending
     THEN UNCHANGED <<epc, mutex>>
     ELSE epc' = "returned" /\ mutex' = "engine"
  /\ UNCHANGED <<barrier_running, barrier_launch, barrier_launchcount, woken,
                 wpc, cur, waiting, wait, tstate, passes, execs>>
  /\ UNCHANGED <<cfgVars, stepVars, auxVars, markVars, moveVars>>

\* scheduler_gettask in the consume loop of runner w: the runner takes a
\* queued task whose cells it can lock, or, with sched.waiting at zero,
\* gets no task and goes back to the barrier.
scheduler_gettask(w) ==
  /\ wpc[w] = "consume"
  /\ \/ /\ waiting > 0
        /\ \E t \in DOMAIN tasks :
             /\ tstate[t] = "queued"
             /\ \A r \in DOMAIN tasks :
                  tstate[r] = "running" => ~LockConflict(tasks[t], tasks[r])
             /\ tstate' = [tstate EXCEPT ![t] = "running"]
             /\ cur' = [cur EXCEPT ![w] = t]
             /\ execs' = [execs EXCEPT ![t] = @ + 1]
        /\ wpc' = [wpc EXCEPT ![w] = "run"]
     \/ /\ waiting = 0
        /\ wpc' = [wpc EXCEPT ![w] = "enter"]
        /\ UNCHANGED <<tstate, cur, execs>>
  /\ UNCHANGED <<barrier_running, barrier_launch, barrier_launchcount, mutex,
                 woken, ewoken, epc, waiting, wait, passes>>
  /\ UNCHANGED <<cfgVars, stepVars, auxVars, markVars, moveVars>>

\* The task of runner w has run; scheduler_done releases its cells,
\* decrements the wait of every activated task it unlocks and enqueues
\* those that reach zero.
scheduler_done(w) ==
  /\ wpc[w] = "run"
  /\ LET t == cur[w]
         next == {i \in DOMAIN tasks : <<t, i>> \in unlocks /\ skip[i] = 0}
         ready == {i \in next : wait[i] = 1}
     IN /\ wait' = [i \in DOMAIN tasks |->
                      IF i \in next THEN wait[i] - 1 ELSE wait[i]]
        /\ tstate' = [i \in DOMAIN tasks |->
                        IF i = t THEN "done"
                        ELSE IF i \in ready THEN "queued" ELSE tstate[i]]
        /\ waiting' = waiting + Cardinality(ready) - 1
  /\ cur' = [cur EXCEPT ![w] = 0]
  /\ wpc' = [wpc EXCEPT ![w] = "consume"]
  /\ UNCHANGED <<barrier_running, barrier_launch, barrier_launchcount, mutex,
                 woken, ewoken, epc, passes, execs>>
  /\ UNCHANGED <<cfgVars, stepVars, auxVars, markVars, moveVars>>

NextLaunch ==
  \/ engine_init_wake
  \/ engine_launch(NrThreads)
  \/ scheduler_start
  \/ engine_launch_wait
  \/ engine_launch_wake
  \/ \E w \in Threads : engine_barrier(w)
  \/ \E w \in Threads : engine_barrier_wake(w)
  \/ \E w \in Threads : scheduler_gettask(w)
  \/ \E w \in Threads : scheduler_done(w)

SpecLaunch == InitLaunch /\ [][NextLaunch]_vars

\* The steps of the engine thread and of runner w.
EngineStep ==
  \/ engine_init_wake
  \/ engine_launch(NrThreads)
  \/ scheduler_start
  \/ engine_launch_wait
  \/ engine_launch_wake

RunnerStep(w) ==
  \/ engine_barrier(w)
  \/ engine_barrier_wake(w)
  \/ scheduler_gettask(w)
  \/ scheduler_done(w)

\* The launch under fair thread scheduling: a thread that can take a step
\* from some point on takes one.
SpecLaunchFair ==
  /\ SpecLaunch
  /\ WF_vars(EngineStep)
  /\ \A w \in Threads : WF_vars(RunnerStep(w))

(***************************************************************************)
(* Properties of the launch.                                               *)
(***************************************************************************)
Started(i) == tstate[i] \in {"running", "done"}

\* The ghost task of the super cell of c, and its init task.
GhostOf(c) == Hier(tasks, "ghost", super(c))

InitOf(c) == Hier(tasks, "init", super(c))

\* The local cells of task i.
LocalCells(i) == {c \in {tasks[i].ci, tasks[i].cj} \ {0} : nodeID[c] = engine_rank}

\* C2: a task has started only if every activated task with an unlock edge
\* to it has finished; in the diamond init -> density loops -> ghost of a
\* super cell, a density-loop task has started only if the activated init
\* task has finished and the ghost task has started only if every activated
\* density-loop task on a cell of the super cell has finished.
StartsAfterUnlockers ==
  /\ \A e \in unlocks :
       (skip[e[1]] = 0 /\ skip[e[2]] = 0 /\ Started(e[2]))
         => tstate[e[1]] = "done"
  /\ \A i \in DOMAIN tasks :
       (IsDensity(tasks[i]) /\ skip[i] = 0) =>
         \A c \in LocalCells(i) :
           /\ (Started(i) /\ InitOf(c) # 0 /\ skip[InitOf(c)] = 0)
                => tstate[InitOf(c)] = "done"
           /\ (GhostOf(c) # 0 /\ skip[GhostOf(c)] = 0 /\ Started(GhostOf(c)))
                => tstate[i] = "done"

\* C2 witness: the two density tasks of the diamond on cells 2 and 3 run at
\* the same time on two runners, after init and before ghost.
DiamondSidesOverlap ==
  \E w1, w2 \in Threads :
    /\ w1 # w2 /\ wpc[w1] = "run" /\ wpc[w2] = "run"
    /\ tasks[cur[w1]].type = "self" /\ tasks[cur[w1]].subtype = "density"
    /\ tasks[cur[w1]].ci = 2
    /\ tasks[cur[w2]].type = "sub_self" /\ tasks[cur[w2]].subtype = "density"
    /\ tasks[cur[w2]].ci = 3
    /\ tstate[InitOf(2)] = "done"
    /\ tstate[GhostOf(2)] = "idle" /\ skip[GhostOf(2)] = 0
    /\ <<cur[w1], cur[w2]>> \notin unlocks /\ <<cur[w2], cur[w1]>> \notin unlocks

\* engine_launch has returned.
LaunchReturned == epc = "returned"

\* C3: under fair scheduling every launch returns, no task is executed
\* twice, at the return every activated task has been executed exactly once
\* and no skipped task has, and while the tasks are loaded no activated
\* task whose activated unlockers have all finished is left out of the
\* queues.
LaunchDrains ==
  /\ (epc = "open") ~> LaunchReturned
  /\ [](\A i \in DOMAIN tasks : execs[i] <= 1)
  /\ [](LaunchReturned =>
          \A i \in DOMAIN tasks :
            /\ execs[i] = 1 - skip[i]
            /\ skip[i] = 0 => tstate[i] = "done")
  /\ [](epc \in {"loaded", "wait"} =>
          \A i \in DOMAIN tasks :
            (skip[i] = 0 /\ \A a \in ActivePreds(i) : tstate[a] = "done")
              => tstate[i] # "idle")

\* C3 witness: a launch has returned with tasks executed and tasks skipped.
ReturnedAfterWork ==
  /\ LaunchReturned
  /\ \E i, j \in DOMAIN tasks : execs[i] = 1 /\ skip[j] = 1

\* The cells whose particle state a running task writes: a loop task
\* writes the particles of its cells, a task of a super cell (init, ghost,
\* kick1, kick2, drift, timestep, cooling, sourceterms) runs its particle
\* loop over the cells of the super cell, a recv task fills the particles
\* of its foreign cell; send and sort tasks write no particle.
WriteCells(t) ==
  IF IsLoop(t) THEN UNION {Under(c) : c \in {t.ci, t.cj} \ {0}}
  ELSE IF t.type \in SingleCellTypes THEN {c \in Cells : super(c) = t.ci}
  ELSE IF t.type = "recv" THEN Under(t.ci)
  ELSE {}

Running == {i \in DOMAIN tasks : tstate[i] = "running"}

\* C4 as stated: no two tasks that write particle state of a common cell
\* are executing at the same time.
NoConcurrentWriters ==
  \A i, j \in Running :
    i # j => WriteCells(tasks[i]) \cap WriteCells(tasks[j]) = {}

RECURSIVE SumPasses(_)
SumPasses(W) ==
  IF W = {} THEN 0
  ELSE LET w == CHOOSE x \in W : TRUE IN passes[w] + SumPasses(W \ {w})

\* C5: when engine_launch has returned, barrier_launch and barrier_running
\* are zero, nr_runners passes of the barrier have been granted since the
\* launch began, every runner is parked in the wait of engine_barrier and
\* no task is being executed.
ReturnsWithRunnersHome ==
  LaunchReturned =>
    /\ barrier_launch = 0
    /\ barrier_running = 0
    /\ SumPasses(Threads) = barrier_launchcount
    /\ \A w \in Threads : wpc[w] = "cwait" /\ cur[w] = 0
    /\ Running = {}

\* C5 witness: engine_launch has returned after runners passed the barrier
\* and executed tasks, and all of them are parked.
ReturnedWithRunnersParked ==
  /\ LaunchReturned
  /\ \A w \in Threads : wpc[w] = "cwait"
  /\ \E w \in Threads : passes[w] >= 1
  /\ \E i \in DOMAIN tasks : execs[i] = 1

\* C6 as stated: in every launch each runner passes engine_barrier exactly
\* once; no runner is released a second time while another is never
\* released.
EachRunnerPassesOnce ==
  /\ \A w \in Threads : passes[w] <= 1
  /\ LaunchReturned => \A w \in Threads : passes[w] = 1

\* ---------------------------------------------------------------------
\* Cross-node particle movement: engine_redistribute and
\* engine_exchange_strays.
\*
\* A particle array is a sequence; the C index k is position k + 1.  A gas
\* or star particle is [id, dest, gpart]: dest is the node owning the
\* top-level cell its position falls in, gpart the position of its gravity
\* partner in the node's gparts array, NULL without a partner and Dangling
\* for an address that is no longer valid.  A gravity particle is
\* [id, type, dest, id_or_neg_offset]; id is the identity of the particle
\* it was built for and is only read by the properties.  The xparts follow
\* the parts index by index and are left out.

\* The number of gas particles of the busiest node.
MaxParts == 2

NULL == 0

Dangling == -1

moveArrays == <<pop, parts, gparts, sparts>>

redistVars == <<counts, g_counts, s_counts, parts_new, gparts_new,
                sparts_new, net, posted, rpc>>

strayVars == <<offsets, Nstray, sizes, proxies, reqs_in, count_in, spc>>

\* A particle of the population: its kind, the node of its cell and, for
\* gas and stars, whether it has a gravity partner.
Desc(kind, dest, hasg) == [kind |-> kind, dest |-> dest, hasg |-> hasg]

HasG(d) == d.kind = "dark" \/ d.hasg

ParticleId(n, i) == 10 * (n + 1) + i

\* The positions of the population D whose particle is of kind cls, or has
\* a gparts entry when cls is "gravity", in order.
Idx(D, cls) ==
  SelectSeq([i \in 1..Len(D) |-> i],
            LAMBDA i : IF cls = "gravity" THEN HasG(D[i]) ELSE D[i].kind = cls)

PosIn(sq, x) == CHOOSE k \in 1..Len(sq) : sq[k] = x

\* The sequence f[1], ..., f[k], built element by element.
RECURSIVE Strict(_, _)
Strict(f, k) == IF k = 0 THEN <<>> ELSE Append(Strict(f, k - 1), f[k])

\* The gas (or star) array of node n holding population D, linked to the
\* gparts array below.
MakeParts(D, n, kind) ==
  LET ix == Idx(D, kind)
      gx == Idx(D, "gravity")
  IN Strict([k \in 1..Len(ix) |->
               [id |-> ParticleId(n, ix[k]),
                dest |-> D[ix[k]].dest,
                gpart |-> IF D[ix[k]].hasg THEN PosIn(gx, ix[k]) ELSE NULL]],
            Len(ix))

\* The gparts array of node n holding population D: a partner carries
\* minus the index of its gas or star particle, a dark matter particle a
\* positive id.
MakeGparts(D, n) ==
  LET gx == Idx(D, "gravity")
  IN Strict([k \in 1..Len(gx) |->
               LET d == D[gx[k]]
               IN [id |-> ParticleId(n, gx[k]),
                   type |-> d.kind,
                   dest |-> d.dest,
                   id_or_neg_offset |->
                     IF d.kind = "dark"
                     THEN ParticleId(n, gx[k])
                     ELSE 0 - (PosIn(Idx(D, d.kind),
                                     gx[k]) - 1)]],
            Len(gx))

\* The counts arrays are indexed as count[from * nr_nodes + to].
ZeroCounts == [r \in 0..(nr_nodes * nr_nodes - 1) |-> 0]

\* f[0] + ... + f[k - 1].
RECURSIVE Sum(_, _)
Sum(f, k) == IF k = 0 THEN 0 ELSE f[k - 1] + Sum(f, k - 1)

\* space_parts_sort: the array sorted by destination node, from node d on.
RECURSIVE space_parts_sort(_, _)
space_parts_sort(arr, d) ==
  IF d >= nr_nodes THEN <<>>
  ELSE SelectSeq(arr, LAMBDA x : x.dest = d) \o space_parts_sort(arr, d + 1)

\* The loop that stores in each partner the index of its particle in the
\* sub-array sent to the particle's destination, from C index k - 1 on.
RECURSIVE redistribute_relink(_, _, _, _, _)
redistribute_relink(ps, gs, k, current_dest, count_this_dest) ==
  IF k > Len(ps) THEN gs
  ELSE IF ps[k].gpart # NULL
       THEN LET c == IF ps[k].dest # current_dest THEN 0 ELSE count_this_dest
            IN redistribute_relink(
                 ps, [gs EXCEPT ![ps[k].gpart].id_or_neg_offset = 0 - c],
                 k + 1, ps[k].dest, c + 1)
       ELSE redistribute_relink(ps, gs, k + 1, current_dest, count_this_dest)

\* counts[nodeID * nr_nodes + dest[k]] += 1 for every particle of arr.
LocalCounts(arr, n) ==
  [r \in DOMAIN ZeroCounts |->
     IF r \div nr_nodes = n
     THEN Cardinality({k \in DOMAIN arr : arr[k].dest = r % nr_nodes})
     ELSE 0]

\* engine_redistribute up to the reductions: destinations, counts, sorts
\* and the rewriting of the partners' offsets, for parts, sparts, gparts.
engine_redistribute_sort(n) ==
  /\ rpc[n] = "start"
  /\ LET ps == space_parts_sort(parts[n], 0)
         g1 == IF Len(ps) > 0
               THEN redistribute_relink(ps, gparts[n], 1, ps[1].dest, 0)
               ELSE gparts[n]
         ss == space_parts_sort(sparts[n], 0)
         g2 == IF Len(ss) > 0
               THEN redistribute_relink(ss, g1, 1, ss[1].dest, 0)
               ELSE g1
     IN /\ parts' = [parts EXCEPT ![n] = ps]
        /\ sparts' = [sparts EXCEPT ![n] = ss]
        /\ gparts' = [gparts EXCEPT ![n] = space_parts_sort(g2, 0)]
  /\ counts' = [counts EXCEPT ![n] = LocalCounts(parts[n], n)]
  /\ s_counts' = [s_counts EXCEPT ![n] = LocalCounts(sparts[n], n)]
  /\ g_counts' = [g_counts EXCEPT ![n] = LocalCounts(gparts[n], n)]
  /\ rpc' = [rpc EXCEPT ![n] = "allreduce"]
  /\ UNCHANGED <<pop, parts_new, gparts_new, sparts_new, net, posted>>
  /\ UNCHANGED <<cfgVars, stepVars, auxVars, markVars, launchVars, strayVars>>

\* The three reductions of the counts over all the nodes.
MPI_Allreduce ==
  /\ \A n \in Nodes : rpc[n] = "allreduce"
  /\ LET red(c) == [n \in Nodes |-> [r \in DOMAIN ZeroCounts |->
                      Sum([m \in Nodes |-> c[m][r]], nr_nodes)]]
     IN /\ counts' = red(counts)
        /\ g_counts' = red(g_counts)
        /\ s_counts' = red(s_counts)
  /\ rpc' = [n \in Nodes |-> "emit"]
  /\ UNCHANGED <<moveArrays, parts_new, gparts_new, sparts_new, net, posted>>
  /\ UNCHANGED <<cfgVars, stepVars, auxVars, markVars, launchVars, strayVars>>

\* offset_send and offset_recv of node n when the loop over the nodes
\* reaches node k.
offset_send(cnt, n, k) == Sum([j \in Nodes |-> cnt[n * nr_nodes + j]], k)

offset_recv(cnt, n, k) == Sum([j \in Nodes |-> cnt[j * nr_nodes + n]], k)

\* A slot of a new array that nothing was written to yet.
Unset == [id |-> 0, type |-> "none", dest |-> 0, gpart |-> Dangling,
          id_or_neg_offset |-> 0]

\* The array as it is once the gparts array it points into is gone.
Stale(arr) ==
  Strict([k \in DOMAIN arr |->
            IF arr[k].gpart # NULL
            THEN [arr[k] EXCEPT !.gpart = Dangling] ELSE arr[k]],
         Len(arr))

\* data written to the start of arr, whatever the offset.
PlaceAtStart(arr, off, data) ==
  Strict([i \in DOMAIN arr |-> IF i <= Len(data) THEN data[i] ELSE arr[i]],
         Len(arr))

\* data written to arr from C index off on.
Place(arr, off, data) ==
  Strict([i \in DOMAIN arr |->
            IF i > off /\ i <= off + Len(data) THEN data[i - off] ELSE arr[i]],
         Len(arr))

\* The loop that emits the sends and the receives, for one kind of
\* particle (q = 0 parts, 2 gparts, 3 sparts): the new array with the
\* particles that stay, the messages sent and the receives posted.
redistribute_emit(arr, cnt, n, q) ==
  LET src == IF q = 2 THEN arr ELSE Stale(arr)
      seg(k) == SubSeq(src, offset_send(cnt, n, k) + 1,
                       offset_send(cnt, n, k) + cnt[n * nr_nodes + k])
      blank == Strict([i \in 1..offset_recv(cnt, n, nr_nodes) |-> Unset],
                      offset_recv(cnt, n, nr_nodes))
  IN [new |-> Place(blank, offset_recv(cnt, n, n), seg(n)),
      msgs |-> {[src |-> n, dst |-> k, tag |-> 4 * (n * nr_nodes + k) + q,
                 data |-> seg(k)] :
                k \in {j \in Nodes \ {n} : cnt[n * nr_nodes + j] > 0}},
      recvs |-> {[src |-> k, tag |-> 4 * (k * nr_nodes + n) + q, q |-> q,
                  off |-> offset_recv(cnt, n, k)] :
                 k \in {j \in Nodes \ {n} : cnt[j * nr_nodes + n] > 0}}]

\* engine_redistribute from the allocation of the new arrays to the call
\* of MPI_Waitall.  A send is complete once the message is handed over.
engine_redistribute_emit(n) ==
  /\ rpc[n] = "emit"
  /\ LET ep == redistribute_emit(parts[n], counts[n], n, 0)
         eg == redistribute_emit(gparts[n], g_counts[n], n, 2)
         es == redistribute_emit(sparts[n], s_counts[n], n, 3)
     IN /\ parts_new' = [parts_new EXCEPT ![n] = ep.new]
        /\ gparts_new' = [gparts_new EXCEPT ![n] = eg.new]
        /\ sparts_new' = [sparts_new EXCEPT ![n] = es.new]
        /\ net' = net \cup ep.msgs \cup eg.msgs \cup es.msgs
        /\ posted' = [posted EXCEPT ![n] = ep.recvs \cup eg.recvs \cup es.recvs]
  /\ rpc' = [rpc EXCEPT ![n] = "waitall"]
  /\ UNCHANGED <<moveArrays, counts, g_counts, s_counts>>
  /\ UNCHANGED <<cfgVars, stepVars, auxVars, markVars, launchVars, strayVars>>

\* A message arrives in the receive posted for it on node n.
MPI_Irecv_complete(n) ==
  \E m \in net : \E r \in posted[n] :
    /\ m.dst = n /\ m.src = r.src /\ m.tag = r.tag
    /\ parts_new' = IF r.q = 0
                    THEN [parts_new EXCEPT ![n] = Place(@, r.off, m.data)]
                    ELSE parts_new
    /\ gparts_new' = IF r.q = 2
                     THEN [gparts_new EXCEPT ![n] = Place(@, r.off, m.data)]
                     ELSE gparts_new
    /\ sparts_new' = IF r.q = 3
                     THEN [sparts_new EXCEPT ![n] = Place(@, r.off, m.data)]
                     ELSE sparts_new
    /\ net' = net \ {m}
    /\ posted' = [posted EXCEPT ![n] = @ \ {r}]
    /\ UNCHANGED <<moveArrays, counts, g_counts, s_counts, rpc>>
    /\ UNCHANGED <<cfgVars, stepVars, auxVars, markVars, launchVars, strayVars>>

\* The inner loop that restores the links of the gparts received from one
\* node, C indices k to last - 1; st holds the three new arrays.
RECURSIVE restore_gparts(_, _, _, _, _)
restore_gparts(st, k, last, offset_parts, offset_sparts) ==
  IF k >= last THEN st
  ELSE LET gp == st.g[k + 1]
           partner_index ==
             (IF gp.type = "gas" THEN offset_parts ELSE offset_sparts)
               - gp.id_or_neg_offset
           linked ==
             CASE gp.type = "gas" ->
                    [st EXCEPT !.g[k + 1].id_or_neg_offset = 0 - partner_index,
                               !.p[partner_index + 1].gpart = k + 1]
               [] gp.type = "star" ->
                    [st EXCEPT !.g[k + 1].id_or_neg_offset = 0 - partner_index,
                               !.s[partner_index + 1].gpart = k + 1]
               [] OTHER -> st
       IN restore_gparts(linked, k + 1, last, offset_parts, offset_sparts)

\* The outer loop over the nodes the particles were received from.
RECURSIVE redistribute_restore(_, _, _, _, _, _)
redistribute_restore(st, n, node, offset_parts, offset_sparts, offset_gparts) ==
  IF node >= nr_nodes THEN st
  ELSE LET ind_recv == node * nr_nodes + n
       IN redistribute_restore(
            restore_gparts(st, offset_gparts,
                           offset_gparts + g_counts[n][ind_recv],
                           offset_parts, offset_sparts),
            n, node + 1,
            offset_parts + counts[n][ind_recv],
            offset_sparts + s_counts[n][ind_recv],
            offset_gparts + g_counts[n][ind_recv])

\* engine_redistribute from the return of MPI_Waitall: the links are
\* restored and the new arrays replace the old ones.
engine_redistribute_finish(n) ==
  /\ rpc[n] = "waitall"
  /\ posted[n] = {}
  /\ LET st == redistribute_restore(
                 [p |-> parts_new[n], g |-> gparts_new[n], s |-> sparts_new[n]],
                 n, 0, 0, 0, 0)
     IN /\ parts' = [parts EXCEPT ![n] = st.p]
        /\ gparts' = [gparts EXCEPT ![n] = st.g]
        /\ sparts' = [sparts EXCEPT ![n] = st.s]
  /\ parts_new' = [parts_new EXCEPT ![n] = <<>>]
  /\ gparts_new' = [gparts_new EXCEPT ![n] = <<>>]
  /\ sparts_new' = [sparts_new EXCEPT ![n] = <<>>]
  /\ rpc' = [rpc EXCEPT ![n] = "done"]
  /\ UNCHANGED <<pop, counts, g_counts, s_counts, net, posted>>
  /\ UNCHANGED <<cfgVars, stepVars, auxVars, markVars, launchVars, strayVars>>

\* The populations the redistribution is run on: node 0 holds MaxParts gas
\* particles, with or without partner, bound for node 0 or 1, and a star;
\* node 1 a gas particle and a dark matter particle; node 2 a gas particle
\* bound for node 0.
RedistPops ==
  {[n \in Nodes |->
      CASE n = 0 -> a \o <<Desc("star", d, TRUE)>>
        [] n = 1 -> <<Desc("gas", e, TRUE), Desc("dark", 1, FALSE)>>
        [] OTHER -> <<Desc("gas", 0, TRUE)>>] :
   a \in [1..MaxParts -> {Desc("gas", x, g) : x \in {0, 1}, g \in BOOLEAN}],
   d \in {0, 1}, e \in {0, 1}}

\* No exchange of strays is under way.
StraysParked ==
  /\ offsets = [n \in Nodes |-> <<>>]
  /\ Nstray = [n \in Nodes |-> <<>>]
  /\ sizes = [n \in Nodes |-> <<>>]
  /\ proxies = [n \in Nodes |-> <<>>]
  /\ reqs_in = [n \in Nodes |-> {}]
  /\ count_in = [n \in Nodes |-> <<>>]
  /\ spc = [n \in Nodes |-> "off"]

\* The rest of the engine while particles move between the nodes.
EngineParked ==
  /\ CfgWith({[c \in {2, 3, 4} |-> 1]}, {0}, {0})
  /\ nodeID[4] = engine_rank
  /\ policy = {"hydro"}
  /\ InitMarkVars
  /\ LaunchParked
  /\ StepParked

InitRedist ==
  /\ EngineParked
  /\ AuxParked
  /\ pop \in RedistPops
  /\ parts = [n \in Nodes |-> MakeParts(pop[n], n, "gas")]
  /\ sparts = [n \in Nodes |-> MakeParts(pop[n], n, "star")]
  /\ gparts = [n \in Nodes |-> MakeGparts(pop[n], n)]
  /\ counts = [n \in Nodes |-> ZeroCounts]
  /\ g_counts = [n \in Nodes |-> ZeroCounts]
  /\ s_counts = [n \in Nodes |-> ZeroCounts]
  /\ parts_new = [n \in Nodes |-> <<>>]
  /\ gparts_new = [n \in Nodes |-> <<>>]
  /\ sparts_new = [n \in Nodes |-> <<>>]
  /\ net = {}
  /\ posted = [n \in Nodes |-> {}]
  /\ rpc = [n \in Nodes |-> "start"]
  /\ StraysParked

NextRedist ==
  \/ \E n \in Nodes : engine_redistribute_sort(n)
  \/ MPI_Allreduce
  \/ \E n \in Nodes : engine_redistribute_emit(n)
  \/ \E n \in Nodes : MPI_Irecv_complete(n)
  \/ \E n \in Nodes : engine_redistribute_finish(n)

RedistDone == \A n \in Nodes : rpc[n] = "done"

\* The particle with this id had a gravity partner before the call.
HadPartner(id) ==
  \E m \in Nodes : \E i \in DOMAIN pop[m] :
    ParticleId(m, i) = id /\ pop[m][i].kind # "dark" /\ pop[m][i].hasg

\* The particle at position i of ps and the gravity particle it was built
\* with point at each other: parts[i - 1].gpart == &gparts[j] and
\* gparts[j].id_or_neg_offset == -(i - 1).
LinkedAt(ps, gs, i) ==
  /\ ps[i].gpart \in DOMAIN gs
  /\ gs[ps[i].gpart].id = ps[i].id
  /\ gs[ps[i].gpart].id_or_neg_offset = 0 - (i - 1)

\* C7: once engine_redistribute has completed on all nodes, every gas and
\* every star particle that had a gravity partner before the call is linked
\* on its new node to that same gravity particle, pointer and negative
\* offset agreeing, whatever the destinations of the particles and whether
\* or not other gas particles bound for the same node have a partner.
RedistKeepsLinks ==
  RedistDone =>
    \A n \in Nodes :
      /\ \A i \in DOMAIN parts[n] :
           HadPartner(parts[n][i].id) => LinkedAt(parts[n], gparts[n], i)
      /\ \A i \in DOMAIN sparts[n] :
           HadPartner(sparts[n][i].id) => LinkedAt(sparts[n], gparts[n], i)

\* No redistribution is under way.
RedistParked ==
  /\ counts = [n \in Nodes |-> <<>>]
  /\ g_counts = [n \in Nodes |-> <<>>]
  /\ s_counts = [n \in Nodes |-> <<>>]
  /\ parts_new = [n \in Nodes |-> <<>>]
  /\ gparts_new = [n \in Nodes |-> <<>>]
  /\ sparts_new = [n \in Nodes |-> <<>>]
  /\ net = {}
  /\ posted = [n \in Nodes |-> {}]
  /\ rpc = [n \in Nodes |-> "off"]

\* engine_exchange_strays.  On each node the arrays hold the local
\* particles first and the strays from offset_parts, offset_gparts and
\* offset_sparts on.  proxies[n][p] is node n's proxy for node p; the data
\* received through it is the content of proxies[p][n]'s outgoing buffers.

\* The loop that puts the strays of one kind into the proxies, from the
\* k-th stray on: fld is the outgoing buffer, and for parts and sparts the
\* partner's offset is rewritten to the index in that buffer.
RECURSIVE strays_load_no_relink(_, _, _, _, _, _, _)
strays_load_no_relink(arr, gs, px, off, N, k, fld) ==
  IF k >= N THEN [g |-> gs, px |-> px]
  ELSE LET p == arr[off + k + 1]
       IN strays_load_no_relink(arr, gs,
                                [px EXCEPT ![p.dest][fld] = Append(@, p)],
                                off, N, k + 1, fld)

RECURSIVE strays_load(_, _, _, _, _, _, _)
strays_load(arr, gs, px, off, N, k, fld) ==
  IF k >= N THEN [g |-> gs, px |-> px]
  ELSE LET p == arr[off + k + 1]
           pid == p.dest
           gs2 == IF fld # "gparts_out" /\ p.gpart # NULL
                  THEN [gs EXCEPT ![p.gpart].id_or_neg_offset =
                                     0 - Len(px[pid][fld])]
                  ELSE gs
       IN strays_load(arr, gs2, [px EXCEPT ![pid][fld] = Append(@, p)],
                      off, N, k + 1, fld)

EmptyProxy == [parts_out |-> <<>>, gparts_out |-> <<>>, sparts_out |-> <<>>,
               nr_parts_in |-> 0, nr_gparts_in |-> 0, nr_sparts_in |-> 0]

\* engine_exchange_strays up to the launch of the proxies: the proxies are
\* reset and loaded, and the counts are sent.
engine_exchange_strays_load(n) ==
  /\ spc[n] = "start"
  /\ LET px0 == [p \in Nodes \ {n} |-> EmptyProxy]
         l1 == strays_load(parts[n], gparts[n], px0, offsets[n].parts,
                           Nstray[n].parts, 0, "parts_out")
         l2 == strays_load(sparts[n], l1.g, l1.px, offsets[n].sparts,
                           Nstray[n].sparts, 0, "sparts_out")
         l3 == strays_load(l2.g, l2.g, l2.px, offsets[n].gparts,
                           Nstray[n].gparts, 0, "gparts_out")
     IN /\ gparts' = [gparts EXCEPT ![n] = l2.g]
        /\ proxies' = [proxies EXCEPT ![n] = l3.px]
  /\ spc' = [spc EXCEPT ![n] = "exch1"]
  /\ UNCHANGED <<pop, parts, sparts, offsets, Nstray, sizes, reqs_in, count_in>>
  /\ UNCHANGED <<cfgVars, stepVars, auxVars, markVars, launchVars, redistVars>>

\* The loop after the reallocation of the parts (or sparts) array: the
\* partner of every local particle gets minus the particle's index.
RECURSIVE strays_realloc_offsets(_, _, _, _)
strays_realloc_offsets(ps, gs, k, offset) ==
  IF k >= offset THEN gs
  ELSE strays_realloc_offsets(
         ps,
         IF ps[k + 1].gpart # NULL
         THEN [gs EXCEPT ![ps[k + 1].gpart].id_or_neg_offset = 0 - k]
         ELSE gs,
         k + 1, offset)

\* The loop after the reallocation of the gparts array: the gas or star
\* partner of every local gpart points at the gpart's new place.
RECURSIVE strays_realloc_pointers(_, _, _)
strays_realloc_pointers(st, k, offset_gparts) ==
  IF k >= offset_gparts THEN st
  ELSE LET gp == st.g[k + 1]
       IN strays_realloc_pointers(
            CASE gp.type = "gas" ->
                   [st EXCEPT !.p[1 - gp.id_or_neg_offset].gpart = k + 1]
              [] gp.type = "star" ->
                   [st EXCEPT !.s[1 - gp.id_or_neg_offset].gpart = k + 1]
              [] OTHER -> st,
            k + 1, offset_gparts)

\* engine_exchange_strays from the wait for the counts to the collection of
\* the requests: the incoming counts are those the peers sent, the arrays
\* are reallocated when the incoming particles do not fit, and one request
\* is pending for each kind of data that is expected from a proxy (0 parts,
\* 1 xparts, 2 gparts, 3 sparts).
engine_exchange_strays_counts(n) ==
  /\ spc[n] = "exch1"
  /\ \A p \in Nodes \ {n} : spc[p] # "start"
  /\ LET peers == Nodes \ {n}
         nin(p, fld) == Len(proxies[p][n][fld])
         cin(fld) == Sum([p \in Nodes |-> IF p = n THEN 0 ELSE nin(p, fld)],
                         nr_nodes)
         o == offsets[n]
         reP == o.parts + cin("parts_out") > sizes[n].parts
         reS == o.sparts + cin("sparts_out") > sizes[n].sparts
         reG == o.gparts + cin("gparts_out") > sizes[n].gparts
         ps1 == IF reP THEN SubSeq(parts[n], 1, o.parts) ELSE parts[n]
         g1 == IF reP
               THEN strays_realloc_offsets(ps1, gparts[n], 0, o.parts)
               ELSE gparts[n]
         ss1 == IF reS THEN SubSeq(sparts[n], 1, o.sparts) ELSE sparts[n]
         g2 == IF reS THEN strays_realloc_offsets(ss1, g1, 0, o.sparts) ELSE g1
         st == IF reG
               THEN strays_realloc_pointers(
                      [p |-> Stale(ps1), s |-> Stale(ss1),
                       g |-> SubSeq(g2, 1, o.gparts)], 0, o.gparts)
               ELSE [p |-> ps1, s |-> ss1, g |-> g2]
     IN /\ parts' = [parts EXCEPT ![n] = st.p]
        /\ sparts' = [sparts EXCEPT ![n] = st.s]
        /\ gparts' = [gparts EXCEPT ![n] = st.g]
        /\ sizes' = [sizes EXCEPT ![n] =
             [parts |-> IF reP THEN o.parts + cin("parts_out") ELSE @.parts,
              sparts |-> IF reS THEN o.sparts + cin("sparts_out") ELSE @.sparts,
              gparts |-> IF reG THEN o.gparts + cin("gparts_out") ELSE @.gparts]]
        /\ proxies' = [proxies EXCEPT ![n] =
             [p \in peers |-> [@[p] EXCEPT !.nr_parts_in = nin(p, "parts_out"),
                                           !.nr_gparts_in = nin(p, "gparts_out"),
                                           !.nr_sparts_in = nin(p, "sparts_out")]]]
        /\ reqs_in' = [reqs_in EXCEPT ![n] =
             {<<p, q>> \in peers \X {0, 1} : nin(p, "parts_out") > 0}
             \cup {<<p, q>> \in peers \X {2} : nin(p, "gparts_out") > 0}
             \cup {<<p, q>> \in peers \X {3} : nin(p, "sparts_out") > 0}]
  /\ count_in' = [count_in EXCEPT ![n] = [parts |-> 0, gparts |-> 0, sparts |-> 0]]
  /\ spc' = [spc EXCEPT ![n] = "waitany"]
  /\ UNCHANGED <<pop, offsets, Nstray>>
  /\ UNCHANGED <<cfgVars, stepVars, auxVars, markVars, launchVars, redistVars>>

\* data copied to arr from C index off on, the array growing as needed.
Overwrite(arr, off, data) ==
  SubSeq(arr, 1, off) \o data \o SubSeq(arr, off + Len(data) + 1, Len(arr))

\* The turn of the loop on MPI_Waitany without the advance of the counters.
engine_exchange_strays_waitany_keeps_counters(n) ==
  /\ spc[n] = "waitany"
  /\ \E r \in reqs_in[n] :
       LET p == r[1]
           rem == reqs_in[n] \ {r}
           prox == proxies[p][n]
           c == count_in[n]
           o == offsets[n]
           st == restore_gparts(
                   [p |-> Overwrite(parts[n], o.parts + c.parts,
                                    Stale(prox.parts_out)),
                    s |-> Overwrite(sparts[n], o.sparts + c.sparts,
                                    Stale(prox.sparts_out)),
                    g |-> Overwrite(gparts[n], o.gparts + c.gparts,
                                    prox.gparts_out)],
                   o.gparts + c.gparts,
                   o.gparts + c.gparts + proxies[n][p].nr_gparts_in,
                   o.parts + c.parts, o.sparts + c.sparts)
       IN /\ spc[p] \in {"waitany", "done"}
          /\ reqs_in' = [reqs_in EXCEPT ![n] = rem]
          /\ IF \A q \in 0..3 : <<p, q>> \notin rem
             THEN /\ parts' = [parts EXCEPT ![n] = st.p]
                  /\ sparts' = [sparts EXCEPT ![n] = st.s]
                  /\ gparts' = [gparts EXCEPT ![n] = st.g]
                  /\ UNCHANGED count_in
             ELSE UNCHANGED <<parts, sparts, gparts, count_in>>
  /\ UNCHANGED <<pop, offsets, Nstray, sizes, proxies, spc>>
  /\ UNCHANGED <<cfgVars, stepVars, auxVars, markVars, launchVars, redistVars>>

\* One turn of the loop on MPI_Waitany: a pending request of node n
\* completes, which it can once the peer has posted its sends; when it was
\* the last one of its proxy the proxy's particles are copied behind those
\* already there and their links are restored.
engine_exchange_strays_waitany(n) ==
  /\ spc[n] = "waitany"
  /\ \E r \in reqs_in[n] :
       LET p == r[1]
           rem == reqs_in[n] \ {r}
           prox == proxies[p][n]
           c == count_in[n]
           o == offsets[n]
           st == restore_gparts(
                   [p |-> Overwrite(parts[n], o.parts + c.parts,
                                    Stale(prox.parts_out)),
                    s |-> Overwrite(sparts[n], o.sparts + c.sparts,
                                    Stale(prox.sparts_out)),
                    g |-> Overwrite(gparts[n], o.gparts + c.gparts,
                                    prox.gparts_out)],
                   o.gparts + c.gparts,
                   o.gparts + c.gparts + proxies[n][p].nr_gparts_in,
                   o.parts + c.parts, o.sparts + c.sparts)
       IN /\ spc[p] \in {"waitany", "done"}
          /\ reqs_in' = [reqs_in EXCEPT ![n] = rem]
          /\ IF \A q \in 0..3 : <<p, q>> \notin rem
             THEN /\ parts' = [parts EXCEPT ![n] = st.p]
                  /\ sparts' = [sparts EXCEPT ![n] = st.s]
                  /\ gparts' = [gparts EXCEPT ![n] = st.g]
                  /\ count_in' = [count_in EXCEPT ![n] =
                       [parts |-> c.parts + proxies[n][p].nr_parts_in,
                        gparts |-> c.gparts + proxies[n][p].nr_gparts_in,
                        sparts |-> c.sparts + proxies[n][p].nr_sparts_in]]
             ELSE UNCHANGED <<parts, sparts, gparts, count_in>>
  /\ UNCHANGED <<pop, offsets, Nstray, sizes, proxies, spc>>
  /\ UNCHANGED <<cfgVars, stepVars, auxVars, markVars, launchVars, redistVars>>

\* engine_exchange_strays from the end of the loop on MPI_Waitany: the
\* numbers of particles received are returned in Npart, Ngpart, Nspart.
engine_exchange_strays_return(n) ==
  /\ spc[n] = "waitany"
  /\ reqs_in[n] = {}
  /\ Nstray' = [Nstray EXCEPT ![n] = count_in[n]]
  /\ spc' = [spc EXCEPT ![n] = "done"]
  /\ UNCHANGED <<moveArrays, offsets, sizes, proxies, reqs_in, count_in>>
  /\ UNCHANGED <<cfgVars, stepVars, auxVars, markVars, launchVars, redistVars>>

\* The populations the exchange is run on, local particles first: node 0
\* has a gas particle and a star and a stray gas particle bound for node 1;
\* node 1 a gas particle and MaxParts stray gas particles, with or without
\* partner, bound for node 0; node 2 a dark matter particle, a stray star
\* bound for node 0 and a stray dark matter particle.
StrayPops ==
  {[n \in Nodes |->
      CASE n = 0 -> <<Desc("gas", 0, TRUE), Desc("star", 0, TRUE),
                      Desc("gas", 1, g)>>
        [] n = 1 -> <<Desc("gas", 1, TRUE)>> \o a
        [] OTHER -> <<Desc("dark", 2, FALSE), Desc("star", 0, TRUE),
                      Desc("dark", d, FALSE)>>] :
   g \in BOOLEAN,
   a \in [1..MaxParts -> {Desc("gas", 0, h) : h \in BOOLEAN}],
   d \in {0, 1}}

\* The numbers of particles of each kind among the first (local = TRUE) or
\* the last (stray) particles of node n's population.
PopCount(n, local) ==
  LET nb(T(_)) == Cardinality({i \in DOMAIN pop[n] :
                     T(pop[n][i]) /\ ((pop[n][i].dest = n) <=> local)})
  IN [parts |-> nb(LAMBDA d : d.kind = "gas"),
      sparts |-> nb(LAMBDA d : d.kind = "star"),
      gparts |-> nb(HasG)]

InitStrays ==
  /\ EngineParked
  /\ AuxParked
  /\ pop \in StrayPops
  /\ parts = [n \in Nodes |-> MakeParts(pop[n], n, "gas")]
  /\ sparts = [n \in Nodes |-> MakeParts(pop[n], n, "star")]
  /\ gparts = [n \in Nodes |-> MakeGparts(pop[n], n)]
  /\ RedistParked
  /\ offsets = [n \in Nodes |-> PopCount(n, TRUE)]
  /\ Nstray = [n \in Nodes |-> PopCount(n, FALSE)]
  /\ \E a \in {0, MaxParts + 3} : \E b \in {0, MaxParts + 3} :
       sizes = [n \in Nodes |->
                  [parts |-> offsets[n].parts + Nstray[n].parts + a,
                   sparts |-> offsets[n].sparts + Nstray[n].sparts + a,
                   gparts |-> offsets[n].gparts + Nstray[n].gparts + b]]
  /\ proxies = [n \in Nodes |-> [p \in Nodes \ {n} |-> EmptyProxy]]
  /\ reqs_in = [n \in Nodes |-> {}]
  /\ count_in = [n \in Nodes |-> [parts |-> 0, gparts |-> 0, sparts |-> 0]]
  /\ spc = [n \in Nodes |-> "start"]

StraysDone == \A n \in Nodes : spc[n] = "done"

\* The movement of particles between the nodes: a redistribution or an
\* exchange of strays.
InitMove == InitRedist \/ InitStrays

NextMove ==
  \/ NextRedist
  \/ \E n \in Nodes : engine_exchange_strays_load(n)
  \/ \E n \in Nodes : engine_exchange_strays_counts(n)
  \/ \E n \in Nodes : engine_exchange_strays_waitany(n)
  \/ \E n \in Nodes : engine_exchange_strays_return(n)

SpecMove == InitMove /\ [][NextMove]_vars

\* The ids of the particles of an array.
Ids(arr) == {arr[k].id : k \in DOMAIN arr}

\* The ids of the particles of the population that are of kind cls, or have
\* a gparts entry when cls is "gravity", and whose top-level cell is owned
\* by node n.
Owned(n, cls) ==
  {ParticleId(m, i) : <<m, i>> \in {x \in Nodes \X (1..(MaxParts + 3)) :
       x[2] \in DOMAIN pop[x[1]]
       /\ (IF cls = "gravity" THEN HasG(pop[x[1]][x[2]])
                              ELSE pop[x[1]][x[2]].kind = cls)
       /\ pop[x[1]][x[2]].dest = n}}

\* C8: after engine_exchange_strays every received gravity particle of type
\* gas or star carries minus the index of the received particle that was
\* its partner on the sending node, and that particle points back at it;
\* the particles that were already local keep their links, with or without
\* reallocation of the arrays, in every order of completion of the
\* requests.
StraysKeepLinks ==
  StraysDone =>
    \A n \in Nodes :
      LET o == offsets[n]
          N == Nstray[n]
      IN /\ \A j \in (o.gparts + 1)..(o.gparts + N.gparts) :
              LET gp == gparts[n][j]
                  i == 1 - gp.id_or_neg_offset
              IN /\ gp.type = "gas" =>
                      /\ i \in (o.parts + 1)..(o.parts + N.parts)
                      /\ parts[n][i].id = gp.id
                      /\ parts[n][i].gpart = j
                 /\ gp.type = "star" =>
                      /\ i \in (o.sparts + 1)..(o.sparts + N.sparts)
                      /\ sparts[n][i].id = gp.id
                      /\ sparts[n][i].gpart = j
         /\ \A i \in 1..(o.parts + N.parts) :
              HadPartner(parts[n][i].id) => LinkedAt(parts[n], gparts[n], i)
         /\ \A i \in 1..(o.sparts + N.sparts) :
              HadPartner(sparts[n][i].id) => LinkedAt(sparts[n], gparts[n], i)

\* A node has received, through two proxies, a star with its partner and a
\* gas particle with its partner that came behind a gas particle without
\* one, into a parts array that had to be reallocated.
StraysLinkedAfterRealloc ==
  /\ StraysDone
  /\ \E n \in Nodes :
       LET o == offsets[n]
           N == Nstray[n]
       IN /\ N.parts > PopCount(n, FALSE).parts
          /\ sizes[n].parts = o.parts + N.parts
          /\ N.sparts > 0
          /\ \E i \in (o.parts + 1)..(o.parts + N.parts - 1) :
               /\ parts[n][i].gpart = NULL
               /\ parts[n][i + 1].gpart # NULL
               /\ parts[n][i].id \div 10 = parts[n][i + 1].id \div 10

\* C9: no particle is lost or duplicated by the movement between nodes.
\* After engine_redistribute each node holds exactly the particles whose
\* top-level cell it owns, each once, so that the total counts of each kind
\* are those from before; after engine_exchange_strays the counts received,
\* summed over the nodes, are the counts of strays that were sent.
MoveConserves ==
  /\ RedistDone =>
       \A n \in Nodes :
         /\ Ids(parts[n]) = Owned(n, "gas")
         /\ Len(parts[n]) = Cardinality(Ids(parts[n]))
         /\ Ids(sparts[n]) = Owned(n, "star")
         /\ Len(sparts[n]) = Cardinality(Ids(sparts[n]))
         /\ Ids(gparts[n]) = Owned(n, "gravity")
         /\ Len(gparts[n]) = Cardinality(Ids(gparts[n]))
  /\ StraysDone =>
       \A f \in {"parts", "gparts", "sparts"} :
         Sum([n \in Nodes |-> Nstray[n][f]], nr_nodes)
           = Sum([n \in Nodes |-> PopCount(n, FALSE)[f]], nr_nodes)

\* The redistribution is over and a node holds gas particles that came from
\* two other nodes behind its own.
RedistMovedParticles ==
  /\ RedistDone
  /\ \E n \in Nodes :
       Cardinality({parts[n][i].id \div 10 : i \in DOMAIN parts[n]}) = nr_nodes

(***************************************************************************)
(* The step.  engine_step collects the end of the next time-step, writes   *)
(* the snapshots that are due, moves the engine forward in time, drifts,   *)
(* repartitions and prepares the space, and launches the runners.  The     *)
(* engine is taken after engine_init and engine_init_particles; the calls  *)
(* a step makes are recorded in log, in the order the code makes them.     *)
(* Every cell of the tree holds particles.                                 *)
(***************************************************************************)
\* The length of the integer time line.
max_nr_timesteps == 4

\* e->timeBase, with e->timeBegin = 0: the time units per integer time.
timeBase == 2

timeEnd == max_nr_timesteps * timeBase

\* The values of Snapshots:time_first and Snapshots:delta_time that
\* engine_init accepts (delta_time < 0 is an error, 0 is not).
SnapshotFirsts == {timeBase + 1}

SnapshotDeltas == {0, 1, timeBase + 1}

MinOf(S) == CHOOSE m \in S : \A x \in S : m <= x

\* The for loop of engine_compute_next_snapshot_time from the value time of
\* its variable; ti_next is e->ti_nextSnapshot.  With deltaTimeSnapshot = 0
\* an iteration that does not break leaves every variable as it was, and
\* the loop does not exit.
RECURSIVE snapshot_time_loop(_, _, _, _)
snapshot_time_loop(time, delta, ti_next, ti_cur) ==
  IF time < timeEnd + delta
  THEN LET ti == time \div timeBase
       IN IF ti > ti_cur THEN [exits |-> TRUE, ti |-> ti]
          ELSE IF delta = 0 THEN [exits |-> FALSE, ti |-> ti]
          ELSE snapshot_time_loop(time + delta, delta, ti, ti_cur)
  ELSE [exits |-> TRUE, ti |-> ti_next]

\* engine_compute_next_snapshot_time: whether it returns, and the value of
\* e->ti_nextSnapshot it leaves.
engine_compute_next_snapshot_time(first, delta, ti_next, ti_cur) ==
  LET r == snapshot_time_loop(first, delta, ti_next, ti_cur)
  IN [exits |-> r.exits,
      ti |-> IF r.ti >= max_nr_timesteps THEN -1 ELSE r.ti]

\* engine_collect_kick with every cell returning the initial value of the
\* minimum.
RECURSIVE engine_collect_kick_never_set(_, _)
engine_collect_kick_never_set(te, c) == max_nr_timesteps

\* engine_collect_kick on cell c: the value of c->ti_end_min when it returns;
\* te holds the ti_end_min of the cells before the call.
RECURSIVE engine_collect_kick(_, _)
engine_collect_kick(te, c) ==
  IF Hier(tasks, "timestep", c) # 0 \/ TaskOf(tasks, "recv", "tend", c) # 0
  THEN te[c]
  ELSE MinOf({max_nr_timesteps}
             \cup {engine_collect_kick(te, cp) : cp \in progeny(c)})

\* The displacements the cells can have after a drift: none shrinks.
Drifted ==
  {dx \in [Cells -> 0..MaxDx] :
     /\ dx[1] = dx[2] /\ dx[3] = 0 /\ dx[1] + dx[4] <= MaxDx
     /\ \A c \in Cells : dx[c] >= dx_max[c]}

\* The calls of engine_rebuild that follow the clearing of forcerebuild,
\* with the activation pass ahead of the construction of the tasks.
engine_rebuild_marks_first ==
  <<"space_rebuild", "engine_exchange_cells", "engine_marktasks",
    "engine_maketasks">>

\* The calls of engine_rebuild that follow the clearing of forcerebuild.
engine_rebuild ==
  <<"space_rebuild", "engine_exchange_cells", "engine_maketasks",
    "engine_marktasks">>

\* The variables of the cells and of the graph that a step leaves alone
\* unless it rebuilds.
graphVars == <<policy, sorted, tasks, unlocks>>

markState == <<skip, sortflags, updated, g_updated, s_updated>>

\* engine_step up to the loop over the snapshots: engine_collect_timestep
\* with the MPI_Allreduce over the nodes, and the broadcast of the
\* repartition request of node 0.  The main loop calls engine_step until
\* engine_is_done.
engine_collect_timestep ==
  /\ epos = "step"
  /\ ti_current < max_nr_timesteps
  /\ LET local == MinOf({max_nr_timesteps}
                        \cup {engine_collect_kick(ti_end_min, TopCells[k]) :
                                k \in DOMAIN TopCells})
         other == IF nodeID[4] = ForeignNode
                  THEN ti_end_min[4] ELSE max_nr_timesteps
     IN e_ti_end_min' = Min(local, other)
  /\ forcerepart' \in {"REPART_NONE", "REPART_METIS_BOTH"}
  /\ log' = <<>>
  /\ epos' = "snapshots"
  /\ UNCHANGED <<forcerebuild, repart, ti_old, ti_nextSnapshot,
                 timeFirstSnapshot, deltaTimeSnapshot, dumps>>
  /\ UNCHANGED <<nodeID, ti_current, ti_end_min, dx_max, graphVars, markState>>
  /\ UNCHANGED <<rebuild_space, mphase, cursor, mpos, mend, mpass, snap>>
  /\ UNCHANGED <<launchVars, moveVars, auxVars>>

\* One iteration of the "check for output" loop of engine_step.
engine_step_snapshot ==
  /\ epos = "snapshots"
  /\ e_ti_end_min >= ti_nextSnapshot /\ ti_nextSnapshot > 0
  /\ ti_old' = ti_current
  /\ ti_current' = ti_nextSnapshot
  /\ dx_max' \in Drifted
  /\ log' = log \o <<"engine_drift_all", "engine_dump_snapshot">>
  /\ dumps' = Append(dumps, ti_nextSnapshot)
  /\ LET r == engine_compute_next_snapshot_time(
                timeFirstSnapshot, deltaTimeSnapshot, ti_nextSnapshot,
                ti_nextSnapshot)
     IN /\ ti_nextSnapshot' = r.ti
        /\ epos' = IF r.exits THEN "snapshots" ELSE "in_snapshot_time_loop"
  /\ UNCHANGED <<forcerebuild, forcerepart, repart, e_ti_end_min,
                 timeFirstSnapshot, deltaTimeSnapshot>>
  /\ UNCHANGED <<nodeID, ti_end_min, graphVars, markState>>
  /\ UNCHANGED <<rebuild_space, mphase, cursor, mpos, mend, mpass, snap>>
  /\ UNCHANGED <<launchVars, moveVars, auxVars>>

\* engine_step from "move forward in time" to the drift of all particles.
engine_step_advance ==
  /\ epos = "snapshots"
  /\ ~(e_ti_end_min >= ti_nextSnapshot /\ ti_nextSnapshot > 0)
  /\ ti_old' = ti_current
  /\ ti_current' = e_ti_end_min
  /\ repart' = (forcerepart # "REPART_NONE")
  /\ IF repart' \/ "drift_all" \in policy
     THEN dx_max' \in Drifted /\ log' = Append(log, "engine_drift_all")
     ELSE UNCHANGED <<dx_max, log>>
  /\ epos' = IF repart' THEN "repartition" ELSE "prepare"
  /\ UNCHANGED <<forcerebuild, forcerepart, e_ti_end_min, ti_nextSnapshot,
                 timeFirstSnapshot, deltaTimeSnapshot, dumps>>
  /\ UNCHANGED <<nodeID, ti_end_min, graphVars, markState>>
  /\ UNCHANGED <<rebuild_space, mphase, cursor, mpos, mend, mpass, snap>>
  /\ UNCHANGED <<launchVars, moveVars, auxVars>>

\* engine_repartition without the request for a rebuild.
engine_repartition_no_rebuild ==
  /\ epos = "repartition"
  /\ forcerepart' = "REPART_NONE"
  /\ IF nr_nodes = 1
     THEN UNCHANGED <<nodeID, log, forcerebuild>>
     ELSE /\ \E n \in {engine_rank, ForeignNode} :
               nodeID' = [nodeID EXCEPT ![4] = n]
          /\ log' = log \o <<"partition_repartition", "engine_redistribute",
                             "engine_makeproxies">>
          /\ UNCHANGED forcerebuild
  /\ epos' = "prepare"
  /\ UNCHANGED <<repart, ti_old, e_ti_end_min, ti_nextSnapshot,
                 timeFirstSnapshot, deltaTimeSnapshot, dumps>>
  /\ UNCHANGED <<ti_current, ti_end_min, dx_max, graphVars, markState>>
  /\ UNCHANGED <<rebuild_space, mphase, cursor, mpos, mend, mpass, snap>>
  /\ UNCHANGED <<launchVars, moveVars, auxVars>>

\* engine_repartition (WITH_MPI and HAVE_METIS): the new partition moves
\* cell 4 to either node.
engine_repartition ==
  /\ epos = "repartition"
  /\ forcerepart' = "REPART_NONE"
  /\ IF nr_nodes = 1
     THEN UNCHANGED <<nodeID, log, forcerebuild>>
     ELSE /\ \E n \in {engine_rank, ForeignNode} :
               nodeID' = [nodeID EXCEPT ![4] = n]
          /\ log' = log \o <<"partition_repartition", "engine_redistribute",
                             "engine_makeproxies">>
          /\ forcerebuild' = 1
  /\ epos' = "prepare"
  /\ UNCHANGED <<repart, ti_old, e_ti_end_min, ti_nextSnapshot,
                 timeFirstSnapshot, deltaTimeSnapshot, dumps>>
  /\ UNCHANGED <<ti_current, ti_end_min, dx_max, graphVars, markState>>
  /\ UNCHANGED <<rebuild_space, mphase, cursor, mpos, mend, mpass, snap>>
  /\ UNCHANGED <<launchVars, moveVars, auxVars>>

\* engine_prepare(e, drift_all, postrepart) as engine_step calls it, with
\* engine_rebuild; other is the largest forcerebuild of the other nodes in
\* the MPI_Allreduce.  engine_unskip activates the tasks as the activation
\* pass does and raises forcerebuild when a pair of cells moved too much;
\* space_rebuild makes new cells, unsorted and with no displacement.
engine_prepare ==
  /\ epos = "prepare"
  /\ \E other \in {0, 1}, old \in {Marked} :
       LET postrepart == repart
           drift_all == ~("drift_all" \in policy \/ repart)
           unskipped == IF postrepart THEN forcerebuild
                        ELSE Max(forcerebuild, old.rebuild_space)
           rebuild == Max(unskipped, other)
           before == IF postrepart THEN <<>> ELSE <<"engine_unskip">>
           after == IF postrepart THEN <<"engine_unskip">> ELSE <<>>
       IN /\ UNCHANGED <<nodeID, policy, ti_current, ti_end_min>>
          /\ IF rebuild # 0
             THEN /\ dx_max' = [c \in Cells |-> 0]
                  /\ sorted' = [c \in Cells |-> 0]
                  /\ tasks' = MakeTasks(nodeID, policy)
                  /\ unlocks' = MakeUnlocks(tasks', nodeID, policy)
                  /\ log' = log \o before
                              \o (IF drift_all THEN <<"engine_drift_all">>
                                  ELSE <<>>)
                              \o engine_rebuild \o after
             ELSE /\ UNCHANGED <<dx_max, sorted, tasks, unlocks>>
                  /\ log' = log \o before \o after
          /\ \E m \in {IF rebuild # 0 \/ postrepart THEN Marked' ELSE old} :
                /\ skip' = m.skip
                /\ sortflags' = m.sortflags
                /\ updated' = m.updated
                /\ g_updated' = m.g_updated
                /\ s_updated' = m.s_updated
                /\ forcerebuild' = IF postrepart THEN m.rebuild_space ELSE 0
  /\ epos' = "launch"
  /\ UNCHANGED <<forcerepart, repart, ti_old, e_ti_end_min, ti_nextSnapshot,
                 timeFirstSnapshot, deltaTimeSnapshot, dumps>>
  /\ UNCHANGED <<rebuild_space, mphase, cursor, mpos, mend, mpass, snap>>
  /\ UNCHANGED <<launchVars, moveVars, auxVars>>

\* engine_launch as a whole: the runners drain the graph.  The timestep
\* task of every active cell gives it a later end of time step (the recv
\* task brings that of a foreign cell), and the drift tasks move particles.
engine_step_launch ==
  /\ epos = "launch"
  /\ log' = Append(log, "engine_launch")
  /\ \E a \in [{2, 3, 4} -> {1, 2}] :
       LET end(c) == IF ti_end_min[c] <= ti_current
                     THEN Min(ti_current + a[c], max_nr_timesteps)
                     ELSE ti_end_min[c]
       IN ti_end_min' = [c \in Cells |-> IF c = 1 THEN Min(end(2), end(3))
                                         ELSE end(c)]
  /\ dx_max' \in Drifted
  /\ epos' = "step"
  /\ UNCHANGED <<forcerebuild, forcerepart, repart, ti_old, e_ti_end_min,
                 ti_nextSnapshot, timeFirstSnapshot, deltaTimeSnapshot, dumps>>
  /\ UNCHANGED <<nodeID, ti_current, graphVars, markState>>
  /\ UNCHANGED <<rebuild_space, mphase, cursor, mpos, mend, mpass, snap>>
  /\ UNCHANGED <<launchVars, moveVars, auxVars>>

\* The engine after engine_init and engine_init_particles: at time 0 with
\* a rebuild requested, the first snapshot time computed, and the graph of
\* the first engine_prepare.
InitStep ==
  /\ nodeID \in {[c \in Cells |-> IF c = 4 THEN n ELSE engine_rank] :
                   n \in {engine_rank, ForeignNode}}
  /\ policy \in {{"hydro"}, {"hydro", "drift_all"}}
  /\ ti_current = 0
  /\ \E a \in Times :
        ti_end_min = [c \in Cells |-> IF c = 1 THEN Min(a[2], a[3]) ELSE a[c]]
  /\ sorted = [c \in Cells |-> 0]
  /\ dx_max = [c \in Cells |-> 0]
  /\ tasks = MakeTasks(nodeID, policy)
  /\ unlocks = MakeUnlocks(tasks, nodeID, policy)
  /\ InitMarkVars
  /\ LaunchParked
  /\ MoveParked
  /\ AuxParked
  /\ epos = "step"
  /\ forcerebuild = 1
  /\ forcerepart = "REPART_NONE"
  /\ repart = FALSE
  /\ ti_old = 0
  /\ e_ti_end_min = 0
  /\ timeFirstSnapshot \in SnapshotFirsts
  /\ deltaTimeSnapshot \in SnapshotDeltas
  /\ LET r == engine_compute_next_snapshot_time(
                timeFirstSnapshot, deltaTimeSnapshot, 0, 0)
     IN r.exits /\ ti_nextSnapshot = r.ti
  /\ log = <<>>
  /\ dumps = <<>>

NextStep ==
  \/ engine_collect_timestep
  \/ engine_step_snapshot
  \/ engine_step_advance
  \/ engine_repartition
  \/ engine_prepare
  \/ engine_step_launch

SpecStep == InitStep /\ [][NextStep]_vars

\* The engine thread runs on in the loop over the snapshots.
SpecStepFair ==
  /\ SpecStep
  /\ WF_vars(engine_step_snapshot)
  /\ WF_vars(engine_step_advance)

(***************************************************************************)
(* Properties of the step.                                                 *)
(***************************************************************************)
\* The calls evs are made in the sequence of calls s, in that order.
RECURSIVE InOrder(_, _)
InOrder(s, evs) ==
  IF evs = <<>> THEN TRUE
  ELSE IF s = <<>> THEN FALSE
  ELSE IF Head(s) = Head(evs) THEN InOrder(Tail(s), Tail(evs))
  ELSE InOrder(Tail(s), evs)

\* The number of calls of ev in s.
Calls(s, ev) == Cardinality({i \in DOMAIN s : s[i] = ev})

\* C12: when engine_prepare is entered with forcerebuild set, it drifts all
\* particles (if asked to: engine_step has done so otherwise), rebuilds the
\* space, exchanges the cells, makes the tasks and runs the activation pass
\* on the new graph, in this order and before the launch, and leaves
\* forcerebuild at 0; when it does not rebuild it keeps the task graph.
RebuildBeforeLaunch ==
  [][(epos = "prepare" /\ epos' = "launch") =>
       LET rebuilt == Calls(log', "space_rebuild") # 0
           asked == ~("drift_all" \in policy \/ repart)
           made == SubSeq(log', Len(log) + 1, Len(log'))
       IN /\ forcerebuild # 0 => rebuilt
          /\ rebuilt =>
               /\ InOrder(log', <<"engine_drift_all", "space_rebuild",
                                  "engine_exchange_cells", "engine_maketasks",
                                  "engine_marktasks">>)
               /\ asked => InOrder(made, <<"engine_drift_all", "space_rebuild">>)
               /\ \A ev \in {"space_rebuild", "engine_exchange_cells",
                             "engine_maketasks", "engine_marktasks"} :
                     Calls(log', ev) = 1
               /\ forcerebuild' = 0
               /\ tasks' = MakeTasks(nodeID', policy')
               /\ DOMAIN skip' = DOMAIN tasks'
          /\ ~rebuilt => tasks' = tasks /\ unlocks' = unlocks
          /\ Calls(log', "engine_launch") = 0]_vars

\* C12 witness: a step after the first is about to launch after a rebuild
\* for which engine_prepare drifted the particles itself.
RebuiltInLaterStep ==
  /\ epos = "launch" /\ ti_old > 0
  /\ ~repart /\ "drift_all" \notin policy
  /\ Calls(log, "space_rebuild") = 1

\* C13: a step that repartitions drifts all particles, then redistributes
\* them and remakes the proxies, then rebuilds in engine_prepare and runs
\* the unskip pass only after the rebuild, all before the launch;
\* forcerepart is REPART_NONE once engine_repartition has returned.
RepartitionThenRebuild ==
  /\ (epos = "prepare" /\ repart) =>
        forcerepart = "REPART_NONE" /\ forcerebuild = 1
  /\ (epos = "launch" /\ repart) =>
        /\ InOrder(log, <<"engine_drift_all", "partition_repartition",
                          "engine_redistribute", "engine_makeproxies",
                          "space_rebuild", "engine_exchange_cells",
                          "engine_maketasks", "engine_marktasks",
                          "engine_unskip">>)
        /\ Calls(log, "engine_unskip") = 1
        /\ Calls(log, "engine_launch") = 0
        /\ forcerepart = "REPART_NONE"
        /\ tasks = MakeTasks(nodeID, policy)

\* C13 witness: a step after the first has repartitioned and is about to
\* launch.
RepartitionedInLaterStep ==
  epos = "launch" /\ repart /\ ti_old > 0

\* C19: the collected e->ti_end_min is the minimum of the ti_end_min of the
\* cells (max_nr_timesteps at most), engine_step advances ti_current to it,
\* ti_current never exceeds the end of the time step of a cell, and
\* ti_old <= ti_current.
AdvancesToCollectedMinimum ==
  /\ epos = "snapshots" =>
       e_ti_end_min = MinOf({ti_end_min[c] : c \in Cells}
                            \cup {max_nr_timesteps})
  /\ epos \in {"repartition", "prepare", "launch"} =>
       ti_current = e_ti_end_min
  /\ \A c \in Cells : ti_current <= ti_end_min[c]
  /\ ti_old <= ti_current

\* C19 witness: time has advanced, in a step after the first, to the end of
\* the time step of the cell of the other node, ahead of the local cells.
AdvancedToForeignCellEnd ==
  /\ epos = "prepare" /\ 0 < ti_old /\ ti_old < ti_current
  /\ nodeID[4] = ForeignNode
  /\ ti_end_min[4] = ti_current /\ ti_current < ti_end_min[1]

\* A snapshot is due: the condition of the "check for output" loop.
SnapshotDue == e_ti_end_min >= ti_nextSnapshot /\ ti_nextSnapshot > 0

\* C20: engine_step handles every snapshot that is due before it moves
\* forward in time: it sets ti_current to the snapshot time, drifts, dumps
\* and computes the next snapshot time, in that order; the snapshots are
\* written in strictly increasing time order, and the loop over the
\* snapshots ends (time is moved forward).
SnapshotsThenAdvance ==
  /\ [][/\ (epos = "snapshots" /\ epos' \in {"repartition", "prepare"})
             => ~SnapshotDue
        /\ (epos = "snapshots" /\ dumps' # dumps) =>
             /\ SnapshotDue
             /\ ti_current' = ti_nextSnapshot
             /\ dumps' = Append(dumps, ti_current')
             /\ log' = log \o <<"engine_drift_all", "engine_dump_snapshot">>]_vars
  /\ [](\A i, j \in DOMAIN dumps : i < j => dumps[i] < dumps[j])
  /\ [](epos = "snapshots" => <>(epos \in {"repartition", "prepare"}))

(***************************************************************************)
(* The pool of cell-task links.  engine_maketasks allocates size_links     *)
(* slots and sets nr_links to 0; engine_count_and_link_tasks and           *)
(* engine_make_extra_hydroloop_tasks call engine_addlink, one call after   *)
(* the other, to put a task at the head of a link list of a cell.  The     *)
(* macro error() ends the run.                                             *)
(***************************************************************************)
\* The largest pool, the link lists and the tasks of the calls.
MaxLinks == 3

LinkLists == {"ci->density", "cj->density", "ci->force"}

LinkTasks == {1, 2}

\* The array e->links with slot ind written; slots are numbered from 0.
StoreLink(ls, ind, res) ==
  [k \in DOMAIN ls \cup {ind} |-> IF k = ind THEN res ELSE ls[k]]

\* engine_addlink without the test of the index against size_links.
engine_addlink_unchecked(l, t) ==
  /\ lerr = ""
  /\ size_links > 0
  /\ nr_links <= MaxLinks
  /\ nr_links' = nr_links + 1
  /\ links' = StoreLink(links, nr_links, [t |-> t, next |-> heads[l]])
  /\ heads' = [heads EXCEPT ![l] = nr_links]
  /\ UNCHANGED <<size_links, lerr>>
  /\ UNCHANGED <<cfgVars, markVars, launchVars, moveVars, stepVars, hashVars,
                 gridVars, makeVars, xchVars, alVars, mpVars,
                 bhVars, lgVars, ppVars, snVars>>

\* engine_addlink(e, l, t).  NULL is -1 here, the slots being numbered
\* from 0.
engine_addlink(l, t) ==
  /\ lerr = ""
  /\ size_links > 0
  /\ nr_links' = nr_links + 1
  /\ IF nr_links >= size_links
     THEN /\ lerr' = "Link table overflow."
          /\ UNCHANGED <<links, heads>>
     ELSE /\ links' = StoreLink(links, nr_links, [t |-> t, next |-> heads[l]])
          /\ heads' = [heads EXCEPT ![l] = nr_links]
          /\ UNCHANGED lerr
  /\ UNCHANGED size_links
  /\ UNCHANGED <<cfgVars, markVars, launchVars, moveVars, stepVars, hashVars,
                 gridVars, makeVars, xchVars, alVars, mpVars,
                 bhVars, lgVars, ppVars, snVars>>

\* The pool as engine_maketasks leaves it before the first link is made.
InitLink ==
  /\ EngineParked /\ MoveParked /\ HashParked /\ GridParked /\ MakeParked /\ XchParked /\ AddlinkParked /\ ProxiesParked /\ BHParked /\ LoggerParked /\ PrepareParked /\ SnapParked
  /\ size_links \in 1..MaxLinks
  /\ nr_links = 0
  /\ links = <<>>
  /\ heads = [l \in LinkLists |-> -1]
  /\ lerr = ""

NextLink == \E l \in LinkLists, t \in LinkTasks : engine_addlink(l, t)

SpecLink == InitLink /\ [][NextLink]_vars

\* The tasks of the link list l, from its head on.
RECURSIVE LinkWalk(_)
LinkWalk(k) == IF k = -1 THEN <<>> ELSE <<links[k].t>> \o LinkWalk(links[k].next)

\* C21: engine_addlink never hands out a slot outside the pool: a call made
\* when nr_links has reached size_links ends in the error "Link table
\* overflow." and links nothing; any other call puts the task at the head of
\* the list in the slot nr_links, which is below size_links.
AddlinkStaysInPool ==
  /\ [](\A k \in DOMAIN links : 0 <= k /\ k < size_links)
  /\ [][nr_links' # nr_links =>
          IF nr_links >= size_links
          THEN lerr' = "Link table overflow." /\ links' = links /\ heads' = heads
          ELSE /\ lerr' = "" /\ nr_links < size_links
               /\ DOMAIN links' = DOMAIN links \cup {nr_links}
               /\ \E l \in LinkLists :
                    /\ heads'[l] = nr_links
                    /\ links'[nr_links].next = heads[l]
                    /\ Len(LinkWalk(heads[l])') = Len(LinkWalk(heads[l])) + 1]_vars

\* C21 witness: the pool has been filled to its last slot, and the call
\* after that has ended in the error.
PoolFilledThenOverflow ==
  /\ lerr = "Link table overflow."
  /\ size_links = MaxLinks
  /\ DOMAIN links = 0..(size_links - 1)
  /\ \E l \in LinkLists : Len(LinkWalk(heads[l])) >= 2

(***************************************************************************)
(* The hash map (hashmap_t).  A map is its array of chunk pointers, its    *)
(* size and its table_size; a chunk is its occupancy masks, as the set of  *)
(* the offsets whose bit is set, and its elements.  A chunk taken from the *)
(* graveyard is all zero (calloc at allocation, memset at release), so the *)
(* graveyard and the allocations are not followed.  rand_r is the hash     *)
(* function: a call updates the seed and returns a number made from it.    *)
(***************************************************************************)
\* INITIAL_SIZE and HASHMAP_ELEMENTS_PER_CHUNK, scaled down.
INITIAL_SIZE == 4

HASHMAP_ELEMENTS_PER_CHUNK == 2

MAX_CHAIN_LENGTH == 8

HASHMAP_GROWTH_FACTOR == 2

\* The keys and values of the calls, the modulus of the seeds of rand_r and
\* the number of times one call is followed through hashmap_grow.
MaxKey == 3

HashKeys == 1..MaxKey

HashValues == {1, 2}

RandMod == 8

MaxGrows == 4

ChunkOffsets == 0..(HASHMAP_ELEMENTS_PER_CHUNK - 1)

\* m->chunks[k] == NULL, and a chunk as hashmap_get_chunk returns it.
NullChunk ==
  [alloc |-> FALSE, masks |-> {},
   data |-> [o \in ChunkOffsets |-> [key |-> 0, value |-> 0]]]

ZeroChunk == [NullChunk EXCEPT !.alloc = TRUE]

\* rand_r(&curr): the seed after the call; the number returned is made from
\* it.  rand_a and rand_c are fixed for a run.
rand_r(curr) == (rand_a * curr + rand_c) % RandMod

\* The probing loop of hashmap_find from its iteration i on, in chunk cid
\* (numbered from 1) at offset_in_chunk off, with the seed curr.
RECURSIVE hashmap_probe(_, _, _, _, _, _, _)
hashmap_probe(m, key, create_new, cid, off, curr, i) ==
  IF i >= MAX_CHAIN_LENGTH THEN [m |-> m, el |-> <<>>]
  ELSE IF off \notin m.chunks[cid].masks
  THEN IF ~create_new THEN [m |-> m, el |-> <<>>]
       ELSE [m |-> [m EXCEPT !.chunks[cid].masks = @ \cup {off},
                             !.size = @ + 1,
                             !.chunks[cid].data[off].key = key],
             el |-> <<cid, off>>]
  ELSE IF m.chunks[cid].data[off].key = key
  THEN [m |-> m, el |-> <<cid, off>>]
  ELSE hashmap_probe(m, key, create_new, cid,
                     rand_r(curr) % HASHMAP_ELEMENTS_PER_CHUNK,
                     rand_r(curr), i + 1)

\* hashmap_find: the map after the call and the element found (chunk and
\* offset in the chunk), << >> for NULL.
hashmap_find(m, key, create_new) ==
  IF m.size >= m.table_size \div 2 THEN [m |-> m, el |-> <<>>] ELSE
  LET curr == rand_r(key % RandMod)
      offset == curr % m.table_size
      chunk_offset == offset \div HASHMAP_ELEMENTS_PER_CHUNK
      off == offset - chunk_offset * HASHMAP_ELEMENTS_PER_CHUNK
      cid == chunk_offset + 1
  IN IF ~m.chunks[cid].alloc /\ ~create_new THEN [m |-> m, el |-> <<>>]
     ELSE hashmap_probe(
            IF m.chunks[cid].alloc THEN m
            ELSE [m EXCEPT !.chunks[cid] = ZeroChunk],
            key, create_new, cid, off, curr, 0)

\* The elements of the chunks, in the order in which hashmap_grow visits
\* them.
RECURSIVE hashmap_elements(_, _, _)
hashmap_elements(chunks, cid, off) ==
  IF cid > Len(chunks) THEN <<>>
  ELSE IF off > HASHMAP_ELEMENTS_PER_CHUNK - 1
  THEN hashmap_elements(chunks, cid + 1, 0)
  ELSE (IF off \in chunks[cid].masks THEN <<chunks[cid].data[off]>> ELSE <<>>)
       \o hashmap_elements(chunks, cid, off + 1)

\* The loop of hashmap_grow that copies the elements els, from the k-th
\* on, to the new table.
RECURSIVE hashmap_rehash(_, _, _)
hashmap_rehash(m, els, k) ==
  IF k > Len(els) \/ m.err # "" THEN m
  ELSE LET r == hashmap_find(m, els[k].key, TRUE)
       IN IF r.el = <<>>
          THEN [m EXCEPT !.err = "Failed to re-hash element."]
          ELSE hashmap_rehash(
                 [r.m EXCEPT !.chunks[r.el[1]].data[r.el[2]].value = els[k].value],
                 els, k + 1)

\* hashmap_grow.
hashmap_grow(m) ==
  LET table_size == HASHMAP_GROWTH_FACTOR * m.table_size
      nr_chunks == table_size \div HASHMAP_ELEMENTS_PER_CHUNK
  IN hashmap_rehash([m EXCEPT !.table_size = table_size,
                              !.chunks = [k \in 1..nr_chunks |-> NullChunk]],
                    hashmap_elements(m.chunks, 1, 0), 1)

\* hashmap_find(m, key, 1) and the loop "while (!element)" of hashmap_put
\* and hashmap_get, followed through at most fuel calls of hashmap_grow.
RECURSIVE hashmap_find_or_grow(_, _, _)
hashmap_find_or_grow(m, key, fuel) ==
  LET r == hashmap_find(m, key, TRUE)
  IN IF r.el # <<>> \/ m.err # "" THEN r
     ELSE IF fuel = 0 THEN [m |-> [m EXCEPT !.err = "no return"], el |-> <<>>]
     ELSE hashmap_find_or_grow(hashmap_grow(m), key, fuel - 1)

\* The map as one record.
HashMap == [chunks |-> hm_chunks, size |-> hm_size, table_size |-> hm_table_size,
            err |-> hm_err]

\* The map m becomes the state.
HashMapBecomes(m) ==
  /\ hm_chunks' = m.chunks
  /\ hm_size' = m.size
  /\ hm_table_size' = m.table_size
  /\ hm_err' = m.err

\* hashmap_put(m, key, value).  put_log keeps the value last put or, for a
\* key that hashmap_get made, the value the caller finds there (0).
hashmap_put(key, value) ==
  /\ hm_err = ""
  /\ LET r == hashmap_find_or_grow(HashMap, key, MaxGrows)
     IN IF r.el = <<>>
        THEN HashMapBecomes(r.m) /\ UNCHANGED put_log
        ELSE /\ HashMapBecomes(
                  [r.m EXCEPT !.chunks[r.el[1]].data[r.el[2]].value = value])
             /\ put_log' = [put_log EXCEPT ![key] = value]
  /\ UNCHANGED <<rand_a, rand_c, hm_ret>>
  /\ UNCHANGED <<cfgVars, markVars, launchVars, moveVars, stepVars, linkVars,
                 gridVars, makeVars, xchVars, alVars, mpVars,
                 bhVars, lgVars, ppVars, snVars>>

\* hashmap_get(m, key).
hashmap_get(key) ==
  /\ hm_err = ""
  /\ LET r == hashmap_find_or_grow(HashMap, key, MaxGrows)
     IN /\ HashMapBecomes(r.m)
        /\ put_log' = IF r.el # <<>> /\ put_log[key] = -1
                      THEN [put_log EXCEPT ![key] = 0] ELSE put_log
  /\ UNCHANGED <<rand_a, rand_c, hm_ret>>
  /\ UNCHANGED <<cfgVars, markVars, launchVars, moveVars, stepVars, linkVars,
                 gridVars, makeVars, xchVars, alVars, mpVars,
                 bhVars, lgVars, ppVars, snVars>>

\* The value hashmap_lookup(m, key) points to; -1 for NULL.
LookupValue(m, key) ==
  LET r == hashmap_find(m, key, FALSE)
  IN IF r.el = <<>> THEN -1 ELSE r.m.chunks[r.el[1]].data[r.el[2]].value

\* hashmap_lookup(m, key): hm_ret keeps the key and what the call returned.
hashmap_lookup(key) ==
  /\ hm_err = ""
  /\ HashMapBecomes(hashmap_find(HashMap, key, FALSE).m)
  /\ hm_ret' = <<key, LookupValue(HashMap, key)>>
  /\ UNCHANGED <<rand_a, rand_c, put_log>>
  /\ UNCHANGED <<cfgVars, markVars, launchVars, moveVars, stepVars, linkVars,
                 gridVars, makeVars, xchVars, alVars, mpVars,
                 bhVars, lgVars, ppVars, snVars>>

\* hashmap_init, for each of the hash functions followed.
InitHash ==
  /\ EngineParked /\ MoveParked /\ LinkParked /\ GridParked /\ MakeParked /\ XchParked /\ AddlinkParked /\ ProxiesParked /\ BHParked /\ LoggerParked /\ PrepareParked /\ SnapParked
  /\ rand_a \in {1, 5}
  /\ rand_c \in {0, 1}
  /\ hm_table_size =
       ((INITIAL_SIZE + HASHMAP_ELEMENTS_PER_CHUNK - 1)
          \div HASHMAP_ELEMENTS_PER_CHUNK) * HASHMAP_ELEMENTS_PER_CHUNK
  /\ hm_chunks = [k \in 1..(hm_table_size \div HASHMAP_ELEMENTS_PER_CHUNK)
                    |-> NullChunk]
  /\ hm_size = 0
  /\ hm_err = ""
  /\ hm_ret = <<>>
  /\ put_log = [k \in HashKeys |-> -1]

NextHash ==
  \/ \E k \in HashKeys, v \in HashValues : hashmap_put(k, v)
  \/ \E k \in HashKeys : hashmap_get(k)
  \/ \E k \in HashKeys : hashmap_lookup(k)

SpecHash == InitHash /\ [][NextHash]_vars

\* C23: a lookup of a key that was put returns the element with the value
\* last put, whatever calls on other keys came in between and however full
\* the table is; a lookup of a key that was never inserted returns NULL and
\* inserts nothing.
LookupReturnsLastPut ==
  hm_err = "" =>
    /\ \A k \in HashKeys : LookupValue(HashMap, k) = put_log[k]
    /\ \A k \in HashKeys : hashmap_find(HashMap, k, FALSE).m = HashMap

(***************************************************************************)
(* engine_make_hydroloop_tasks on a grid of top-level cells.  The space is *)
(* its cdim[0..2], its periodic flag and, for each top-level cell (named   *)
(* by its cell id, from 0), its count and its nodeID.                      *)
(***************************************************************************)
MaxCdim == 3

MaxTopCells == 9

\* cell_getid(cdim, i, j, k).
cell_getid(cdim, i, j, k) == (i * cdim[1] + j) * cdim[2] + k

GridCells(cdim) == 0..(cdim[0] * cdim[1] * cdim[2] - 1)

\* The coordinates i, j, k of the cell with id cid.
GridCoord(cdim, cid) ==
  [a \in 0..2 |-> CASE a = 0 -> cid \div (cdim[1] * cdim[2])
                    [] a = 1 -> (cid \div cdim[2]) % cdim[1]
                    [] a = 2 -> cid % cdim[2]]

\* sortlistID[n], the axis of the offset numbered n.
sortlistID(n) == IF n <= 12 THEN n ELSE IF n = 13 THEN 0 ELSE 26 - n

\* The body of the three neighbour loops for the cell cid and the offset
\* numbered n = (kk + 1) + 3 * ((jj + 1) + 3 * (ii + 1)): the pair task
\* added, if any.
hydroloop_pair(s, cid, n) ==
  LET x == GridCoord(s.cdim, cid)
      d == [a \in 0..2 |-> CASE a = 0 -> (n \div 9) - 1
                             [] a = 1 -> ((n \div 3) % 3) - 1
                             [] a = 2 -> (n % 3) - 1]
      y == [a \in 0..2 |-> x[a] + d[a]]
      w == [a \in 0..2 |-> (y[a] + s.cdim[a]) % s.cdim[a]]
      cjd == cell_getid(s.cdim, w[0], w[1], w[2])
  IN IF ~s.periodic /\ \E a \in 0..2 : y[a] < 0 \/ y[a] >= s.cdim[a]
     THEN << >>
     ELSE IF \/ cid >= cjd
             \/ s.count[cjd] = 0
             \/ (s.nodeID[cid] # engine_rank /\ s.nodeID[cjd] # engine_rank)
     THEN << >>
     ELSE << Task("pair", "density", sortlistID(n), cid, cjd, 1) >>

RECURSIVE hydroloop_pairs(_, _, _)
hydroloop_pairs(s, cid, n) ==
  IF n > 26 THEN << >>
  ELSE hydroloop_pair(s, cid, n) \o hydroloop_pairs(s, cid, n + 1)

\* The body of the loops over i, j, k for the cell cid: the tasks added.
hydroloop_cell(s, cid) ==
  IF s.count[cid] = 0 THEN << >>
  ELSE (IF s.nodeID[cid] = engine_rank
        THEN << Task("self", "density", 0, cid, -1, 0) >> ELSE << >>)
       \o hydroloop_pairs(s, cid, 0)

\* The loops over i, j, k, which visit the cells by increasing cell id,
\* from the cell cid on.
RECURSIVE hydroloop_cells(_, _)
hydroloop_cells(s, cid) ==
  IF cid \notin GridCells(s.cdim) THEN << >>
  ELSE hydroloop_cell(s, cid) \o hydroloop_cells(s, cid + 1)

\* The space the function is run on.
GridSpace ==
  [cdim |-> grid_cdim, periodic |-> grid_periodic, count |-> grid_count,
   nodeID |-> grid_nodeID]

engine_make_hydroloop_tasks ==
  /\ ~grid_done
  /\ grid_cdim # << >>
  /\ grid_tasks' = hydroloop_cells(GridSpace, 0)
  /\ grid_done' = TRUE
  /\ UNCHANGED <<grid_cdim, grid_periodic, grid_count, grid_nodeID>>
  /\ UNCHANGED <<cfgVars, markVars, launchVars, moveVars, stepVars, linkVars,
                 hashVars, makeVars, xchVars, alVars, mpVars,
                 bhVars, lgVars, ppVars, snVars>>

\* The spaces followed: every grid of up to MaxCdim cells a side and
\* MaxTopCells cells in all, periodic or not, with at most one cell without
\* particles and at most two foreign cells.
InitGrid ==
  /\ EngineParked /\ MoveParked /\ LinkParked /\ HashParked /\ MakeParked /\ XchParked /\ AddlinkParked /\ ProxiesParked /\ BHParked /\ LoggerParked /\ PrepareParked /\ SnapParked
  /\ grid_cdim \in [0..2 -> 1..MaxCdim]
  /\ Cardinality(GridCells(grid_cdim)) <= MaxTopCells
  /\ grid_periodic \in BOOLEAN
  /\ \E E \in {{}} \cup {{c} : c \in GridCells(grid_cdim)},
        F \in {{}} \cup {{c, d} : c, d \in GridCells(grid_cdim)} :
       /\ grid_count = [c \in GridCells(grid_cdim) |->
                          IF c \in E THEN 0 ELSE 1]
       /\ grid_nodeID = [c \in GridCells(grid_cdim) |->
                           IF c \in F THEN ForeignNode ELSE engine_rank]
  /\ grid_tasks = << >>
  /\ grid_done = FALSE

NextGrid == engine_make_hydroloop_tasks

SpecGrid == InitGrid /\ [][NextGrid]_vars

\* Cells c and d are distinct and next to each other: their coordinates
\* differ by at most one along every axis, around the box if it is
\* periodic.
Neighbouring(s, c, d) ==
  /\ c # d
  /\ \A a \in 0..2 :
       LET u == GridCoord(s.cdim, c)[a]
           v == GridCoord(s.cdim, d)[a]
       IN \/ u - v \in -1..1
          \/ s.periodic /\ (u - v + s.cdim[a]) % s.cdim[a] \in {1, s.cdim[a] - 1}

\* The self tasks on cell c and the pair tasks on cells c and d.
SelfTasksOn(ts, c) == {i \in DOMAIN ts : ts[i].type = "self" /\ ts[i].ci = c}

PairTasksOn(ts, c, d) ==
  {i \in DOMAIN ts : ts[i].type = "pair" /\ {ts[i].ci, ts[i].cj} = {c, d}}

\* C24: on every grid, periodic or not, there is exactly one self-density
\* task for every local top-level cell with hydro particles and none for
\* any other cell, exactly one pair-density task for every pair of distinct
\* neighbouring non-empty top-level cells of which at least one is local,
\* and none for any other pair.
OneDensityTaskPerCellAndPair ==
  grid_done =>
    LET s == GridSpace IN
    /\ \A c \in GridCells(s.cdim) :
         Cardinality(SelfTasksOn(grid_tasks, c)) =
           IF s.count[c] > 0 /\ s.nodeID[c] = engine_rank THEN 1 ELSE 0
    /\ \A c, d \in GridCells(s.cdim) : c < d =>
         Cardinality(PairTasksOn(grid_tasks, c, d)) =
           IF /\ Neighbouring(s, c, d)
              /\ s.count[c] > 0 /\ s.count[d] > 0
              /\ (s.nodeID[c] = engine_rank \/ s.nodeID[d] = engine_rank)
           THEN 1 ELSE 0

(***************************************************************************)
(* The force-loop tasks of engine_make_extra_hydroloop_tasks, in the task  *)
(* array engine_maketasks leaves behind.                                   *)
(***************************************************************************)
\* The force-loop tasks with the type and the cells of task i.
ForceTwinsOf(i) ==
  {j \in DOMAIN tasks :
     /\ IsLoop(tasks[j]) /\ tasks[j].subtype = "force"
     /\ tasks[j].type = tasks[i].type
     /\ tasks[j].ci = tasks[i].ci /\ tasks[j].cj = tasks[i].cj}

\* The cells of a task: cj is 0 (NULL) for a task on one cell.
CellsOf(t) == {t.ci, t.cj} \ {0}

\* Every density-loop task has exactly one force twin, linked into the
\* force list of each of its cells, and every force-loop task is the twin
\* of a density-loop task.
OneForceTwinLinked ==
  /\ \A i \in DOMAIN tasks :
       IsDensity(tasks[i]) =>
         /\ Cardinality(ForceTwinsOf(i)) = 1
         /\ \A c \in CellsOf(tasks[i]) :
              ForceTwinsOf(i) \subseteq Links(tasks, "force", c)
  /\ \A j \in DOMAIN tasks :
       (IsLoop(tasks[j]) /\ tasks[j].subtype = "force") =>
         \E i \in DOMAIN tasks : IsDensity(tasks[i]) /\ j \in ForceTwinsOf(i)

\* C25 as stated: engine_make_extra_hydroloop_tasks makes exactly one
\* force-loop task for every density-loop task (self, pair, sub_self,
\* sub_pair), with the same type, ci, cj and flags, linked into the force
\* list of each of its cells, and no force-loop task for any other task.
ForceTwinSameFlags ==
  GraphMade =>
    /\ OneForceTwinLinked
    /\ \A i \in DOMAIN tasks :
         IsDensity(tasks[i]) =>
           \A j \in ForceTwinsOf(i) : tasks[j].flags = tasks[i].flags

\* C25 amended: exactly one force-loop task for every density-loop task,
\* with the same type, ci and cj, linked into the force list of each of its
\* cells, and none for any other task; the twin of a sub_self or sub_pair
\* task has the flags of the density task, the twin of a self or pair task
\* has flags 0.
ForceTwinFlagsOfSubTasksOnly ==
  GraphMade =>
    /\ OneForceTwinLinked
    /\ \A i \in DOMAIN tasks :
         IsDensity(tasks[i]) =>
           \A j \in ForceTwinsOf(i) :
             tasks[j].flags = IF tasks[i].type \in {"sub_self", "sub_pair"}
                              THEN tasks[i].flags ELSE 0

\* A pair density task with a sort-list id other than 0 has its force twin,
\* and a sub_pair density task has one with its flags.
PairForceTwinMade ==
  /\ GraphMade
  /\ \E i \in DOMAIN tasks :
       /\ IsDensity(tasks[i]) /\ tasks[i].type = "pair" /\ tasks[i].flags # 0
       /\ \E j \in ForceTwinsOf(i) : tasks[j].flags = 0
  /\ \E i \in DOMAIN tasks :
       /\ IsDensity(tasks[i]) /\ tasks[i].type = "sub_pair"
       /\ \E j \in ForceTwinsOf(i) :
            tasks[j].flags = tasks[i].flags /\ tasks[j].flags # 0

(***************************************************************************)
(* The send tasks of a local cell in a launch.                             *)
(***************************************************************************)
\* The local cells that have send tasks.
SendingCells == {c \in Cells : TaskOf(tasks, "send", "xv", c) # 0}

\* The force tasks of the pairs of the sending cell c with a foreign cell.
ForceToSend(c) ==
  {i \in Links(tasks, "force", c) :
     /\ tasks[i].type \in {"pair", "sub_pair"}
     /\ \E d \in {tasks[i].ci, tasks[i].cj} : nodeID[d] # engine_rank}

\* Task b, when both are activated, has started only if task a has finished.
StartsAfter(a, b) ==
  (skip[a] = 0 /\ skip[b] = 0 /\ Started(b)) => tstate[a] = "done"

\* The orders the unlock edges of engine_addtasks_send give for cell c, and
\* the order of send_ti after the force tasks.
SendChainCommon(c) ==
  /\ StartsAfter(Hier(tasks, "drift", super(c)), TaskOf(tasks, "send", "xv", c))
  /\ StartsAfter(TaskOf(tasks, "send", "xv", c), GhostOf(c))
  /\ StartsAfter(GhostOf(c), TaskOf(tasks, "send", "rho", c))
  /\ \A f \in ForceToSend(c) :
       StartsAfter(f, TaskOf(tasks, "send", "tend", c))

\* C27 as stated: for a local cell with send tasks, in every execution
\* send_xv starts only after the super cell's drift has finished, the super
\* cell's ghost only after send_xv, send_rho only after the ghost, the pair
\* force tasks on the cell only after send_rho, and send_ti only after
\* those force tasks.
ForceStartsAfterSendRho ==
  \A c \in SendingCells :
    /\ SendChainCommon(c)
    /\ \A f \in ForceToSend(c) :
         StartsAfter(TaskOf(tasks, "send", "rho", c), f)

\* C27 amended: for a local cell with send tasks, in every execution
\* send_xv starts only after the super cell's drift has finished, the super
\* cell's ghost only after send_xv, send_rho only after the ghost, the
\* super cell's kick2 only after send_rho, and send_ti only after the pair
\* force tasks on the cell; the force tasks do not wait for send_rho.
Kick2StartsAfterSendRho ==
  \A c \in SendingCells :
    /\ SendChainCommon(c)
    /\ StartsAfter(TaskOf(tasks, "send", "rho", c),
                   Hier(tasks, "kick2", super(c)))

\* A pair force task of a sending cell runs while send_rho has not started,
\* after send_xv and the ghost have finished.
ForceRunsBeforeSendRho ==
  \E c \in SendingCells :
    \E f \in ForceToSend(c) :
      /\ tstate[f] = "running"
      /\ skip[TaskOf(tasks, "send", "rho", c)] = 0
      /\ ~Started(TaskOf(tasks, "send", "rho", c))
      /\ tstate[TaskOf(tasks, "send", "xv", c)] = "done"
      /\ tstate[GhostOf(c)] = "done"

\* Every send task has finished, after the force tasks and before the
\* launch returns.
SendChainRun ==
  \E c \in SendingCells :
    /\ \A s \in {"xv", "rho", "tend"} :
         tstate[TaskOf(tasks, "send", s, c)] = "done"
    /\ \E f \in ForceToSend(c) : tstate[f] = "done"

(***************************************************************************)
(* engine_maketasks with every policy: the hydro loops, self-gravity,      *)
(* external gravity, cooling and MPI, on the cell tree of the module, with *)
(* the pair of the top-level cells 1 and 4 split into a sub_pair or left a *)
(* pair with the sort tasks of its cells.                                  *)
(***************************************************************************)
AllPolicies ==
  SUBSET {"hydro", "self_gravity", "external_gravity", "cooling", "mpi"}

\* The density-loop and sort tasks when scheduler_splittasks leaves the
\* pair of cells 1 and 4 a pair: it gets the sort tasks of both cells.
LoopTasksPair(nid) ==
  LET ts == LoopTasks(nid)
  IN [i \in DOMAIN ts |->
        IF ts[i].type = "sub_pair" THEN [ts[i] EXCEPT !.type = "pair"]
        ELSE ts[i]]
     \o << Task("sort", "none", 0, 1, 0, 0), Task("sort", "none", 0, 4, 0, 0) >>

\* cell_are_neighbours(ci, cj) for two top-level cells.
cell_are_neighbours(ci, cj) == {ci, cj} = {1, 4}

\* The body of the loop of engine_make_gravity_tasks for the k-th top-level
\* cell.
gravity_tasks_of(k, nid, gcount) ==
  LET ci == TopCells[k]
      later == SelectSeq(SubSeq(TopCells, k + 1, Len(TopCells)),
                         LAMBDA cj : /\ gcount[cj] # 0
                                     /\ nid[cj] = engine_rank
                                     /\ cell_are_neighbours(ci, cj))
  IN IF gcount[ci] = 0 \/ nid[ci] # engine_rank THEN << >>
     ELSE << Task("self", "grav", 0, ci, 0, 0),
             Task("grav_mm", "none", 0, ci, 0, 0) >>
          \o [n \in 1..Len(later) |-> Task("pair", "grav", 0, ci, later[n], 1)]

engine_make_gravity_tasks(nid, gcount) ==
  gravity_tasks_of(1, nid, gcount) \o gravity_tasks_of(2, nid, gcount)

\* The top-level task of the given type on every local top-level cell with
\* gravity particles.
OnGravityCells(type, subtype, nid, gcount) ==
  LET cs == SelectSeq(TopCells, LAMBDA c : /\ gcount[c] # 0
                                           /\ nid[c] = engine_rank)
  IN [n \in 1..Len(cs) |-> Task(type, subtype, 0, cs[n], 0, 0)]

engine_make_external_gravity_tasks(nid, gcount) ==
  OnGravityCells("self", "external_grav", nid, gcount)

\* engine_make_gravityrecursive_tasks: the grav_up tasks; engine_addtasks_grav
\* makes the task of a top-level cell the grav_up of every cell under it.
engine_make_gravityrecursive_tasks(nid, gcount) ==
  OnGravityCells("grav_up", "none", nid, gcount)

\* engine_make_gravity_dependencies with kick2 in the place of init.
engine_make_gravity_dependencies_kick2(ts, gravity, c) ==
  { <<Hier(ts, "kick2", super(c)), gravity>>,
    <<gravity, Hier(ts, "kick2", super(c))>>,
    <<Hier(ts, "grav_up", super(c)), gravity>> }

engine_make_gravity_dependencies(ts, gravity, c) ==
  { <<Hier(ts, "init", super(c)), gravity>>,
    <<gravity, Hier(ts, "kick2", super(c))>>,
    <<Hier(ts, "grav_up", super(c)), gravity>> }

engine_make_external_gravity_dependencies(ts, gravity, c) ==
  { <<Hier(ts, "init", super(c)), gravity>>,
    <<gravity, Hier(ts, "kick2", super(c))>> }

\* The body of the loop of engine_link_gravity_tasks for task k, with the
\* gather task at index gather: the unlock edges added.
link_gravity_task(ts, k, gather, nid) ==
  LET t == ts[k]
  IN (IF t.type = "grav_up" THEN { <<k, gather>> } ELSE {})
     \cup
     (IF t.type = "grav_mm"
      THEN { <<gather, k>>, <<k, Hier(ts, "kick2", super(t.ci))>>,
             <<Hier(ts, "init", super(t.ci)), k>> }
      ELSE {})
     \cup
     (IF t.type = "self" /\ t.subtype = "grav"
      THEN engine_make_gravity_dependencies(ts, k, t.ci)
      ELSE IF t.type = "self" /\ t.subtype = "external_grav"
      THEN engine_make_external_gravity_dependencies(ts, k, t.ci)
      ELSE IF t.type \in {"pair", "sub_pair"} /\ t.subtype = "grav"
      THEN (IF nid[t.ci] = engine_rank
            THEN engine_make_gravity_dependencies(ts, k, t.ci) ELSE {})
           \cup
           (IF nid[t.cj] = engine_rank /\ super(t.ci) # super(t.cj)
            THEN engine_make_gravity_dependencies(ts, k, t.cj) ELSE {})
      ELSE IF t.type = "sub_self" /\ t.subtype = "grav"
      THEN (IF nid[t.ci] = engine_rank
            THEN engine_make_gravity_dependencies(ts, k, t.ci) ELSE {})
      ELSE IF t.type = "sub_self" /\ t.subtype = "external_grav"
      THEN (IF nid[t.ci] = engine_rank
            THEN engine_make_external_gravity_dependencies(ts, k, t.ci)
            ELSE {})
      ELSE {})

\* engine_link_gravity_tasks on the task array ts: the two tasks it adds
\* and its unlock edges.
engine_link_gravity_tasks(ts, nid) ==
  LET gather == Len(ts) + 1
      fft == Len(ts) + 2
  IN [tasks |-> << Task("grav_gather_m", "none", 0, 0, 0, 0),
                   Task("grav_fft", "none", 0, 0, 0, 0) >>,
      unlocks |-> { <<gather, fft>> }
                  \cup UNION { link_gravity_task(ts, k, gather, nid) :
                               k \in DOMAIN ts }]

\* engine_maketasks: the task array and the unlock edges.
engine_maketasks_graph(in) ==
  LET hydro == "hydro" \in in.policy
      grav == "self_gravity" \in in.policy
      ext == "external_gravity" \in in.policy
      comm == "mpi" \in in.policy /\ in.nodeID[4] # engine_rank
      t0 == (IF hydro THEN (IF in.split THEN LoopTasks(in.nodeID)
                            ELSE LoopTasksPair(in.nodeID)) ELSE << >>)
            \o (IF grav THEN engine_make_gravity_tasks(in.nodeID, in.gcount)
                ELSE << >>)
            \o (IF ext
                THEN engine_make_external_gravity_tasks(in.nodeID, in.gcount)
                ELSE << >>)
      t1 == t0 \o (IF grav
                   THEN engine_make_gravityrecursive_tasks(in.nodeID, in.gcount)
                   ELSE << >>)
      t2 == t1 \o engine_make_hierarchical_tasks(TopCells[1], in.nodeID, in.policy)
               \o engine_make_hierarchical_tasks(TopCells[2], in.nodeID, in.policy)
      t3 == IF hydro THEN t2 \o ForceTwins(t2) ELSE t2
      lg == IF grav \/ ext THEN engine_link_gravity_tasks(t3, in.nodeID)
            ELSE [tasks |-> << >>, unlocks |-> {}]
      t4 == t3 \o lg.tasks
      t5 == IF comm THEN t4 \o engine_addtasks_recv(t4, 4) ELSE t4
      t6 == IF comm THEN t5 \o engine_addtasks_send(t5, in.nodeID, 1, 4) ELSE t5
  IN [tasks |-> t6,
      unlocks |->
        HierUnlocks(t6, 1, in.policy) \cup HierUnlocks(t6, 4, in.policy)
        \cup (IF hydro THEN HydroUnlocks(t6, Len(t2), in.nodeID, in.policy)
              ELSE {})
        \cup lg.unlocks
        \cup (IF comm THEN RecvUnlocks(t6, 4) \cup SendUnlocks(t6, 1) ELSE {})]

\* The engine and the space engine_maketasks is run on.
MakeInput ==
  [policy |-> mk_policy, nodeID |-> mk_nodeID, gcount |-> mk_gcount,
   split |-> mk_split]

engine_maketasks ==
  /\ ~mk_made
  /\ mk_nodeID # << >>
  /\ \E g \in {engine_maketasks_graph(MakeInput)} :
       /\ mk_tasks' = g.tasks
       /\ mk_unlocks' = g.unlocks
  /\ mk_made' = TRUE
  /\ UNCHANGED <<mk_policy, mk_nodeID, mk_gcount, mk_split>>
  /\ UNCHANGED <<cfgVars, markVars, launchVars, moveVars, stepVars, linkVars,
                 hashVars, gridVars, xchVars, alVars, mpVars,
                 bhVars, lgVars, ppVars, snVars>>

\* The engines followed: every set of policies, cell 4 local or, with MPI,
\* foreign, gravity particles in each of the top-level cells or not.
InitMake ==
  /\ EngineParked /\ MoveParked /\ LinkParked /\ HashParked /\ GridParked /\ XchParked /\ AddlinkParked /\ ProxiesParked /\ BHParked /\ LoggerParked /\ PrepareParked /\ SnapParked
  /\ mk_policy \in AllPolicies
  /\ mk_nodeID \in {[c \in Cells |-> IF c = 4 THEN n ELSE engine_rank] :
                      n \in {engine_rank, ForeignNode}}
  /\ mk_nodeID[4] # engine_rank => "mpi" \in mk_policy
  /\ mk_gcount \in [{1, 4} -> {0, 1}]
  /\ mk_split \in BOOLEAN
  /\ mk_tasks = << >>
  /\ mk_unlocks = {}
  /\ mk_made = FALSE

NextMake == engine_maketasks

SpecMake == InitMake /\ [][NextMake]_vars

\* The tasks of the given type in the graph made.
MadeOfType(type) == {i \in DOMAIN mk_tasks : mk_tasks[i].type = type}

\* C26: in the graph made with gravity, there is a single grav_gather_m and
\* a single grav_fft task, every grav_up task unlocks grav_gather_m,
\* grav_gather_m unlocks grav_fft, and grav_fft unlocks every grav_mm task.
FftUnlocksEveryMM ==
  (mk_made /\ mk_policy \cap {"self_gravity", "external_gravity"} # {}) =>
    /\ Cardinality(MadeOfType("grav_gather_m")) = 1
    /\ Cardinality(MadeOfType("grav_fft")) = 1
    /\ \A gather \in MadeOfType("grav_gather_m"), fft \in MadeOfType("grav_fft") :
         /\ \A up \in MadeOfType("grav_up") : <<up, gather>> \in mk_unlocks
         /\ <<gather, fft>> \in mk_unlocks
         /\ \A mm \in MadeOfType("grav_mm") : <<fft, mm>> \in mk_unlocks

\* The foreign cells with density tasks in the graph made.
ForeignWithDensity ==
  {c \in Cells : mk_nodeID[c] # engine_rank
                 /\ Links(mk_tasks, "density", c) # {}}

\* C28: for every foreign cell that has density tasks, recv_xv has an unlock
\* edge to each density-loop task on the cell and to the cell's sort task,
\* each of those density-loop tasks has an unlock edge to recv_rho, recv_rho
\* has an unlock edge to each force-loop task on the cell, and each of
\* those force-loop tasks has an unlock edge to recv_ti.
RecvEdgesAroundLoops ==
  mk_made =>
    \A c \in ForeignWithDensity :
      LET t_xv == TaskOf(mk_tasks, "recv", "xv", c)
          t_rho == TaskOf(mk_tasks, "recv", "rho", c)
          t_ti == TaskOf(mk_tasks, "recv", "tend", c)
          sorts == Hier(mk_tasks, "sort", c)
      IN /\ t_xv # 0 /\ t_rho # 0 /\ t_ti # 0
         /\ \A l \in Links(mk_tasks, "density", c) :
              <<t_xv, l>> \in mk_unlocks /\ <<l, t_rho>> \in mk_unlocks
         /\ sorts # 0 => <<t_xv, sorts>> \in mk_unlocks
         /\ Links(mk_tasks, "force", c) # {}
         /\ \A f \in Links(mk_tasks, "force", c) :
              <<t_rho, f>> \in mk_unlocks /\ <<f, t_ti>> \in mk_unlocks

\* A graph has been made with a foreign cell that has a density task, a
\* force task and a sort task.
RecvAroundPairAndSort ==
  /\ mk_made
  /\ \E c \in ForeignWithDensity :
       /\ Hier(mk_tasks, "sort", c) # 0
       /\ Links(mk_tasks, "force", c) # {}
       /\ TaskOf(mk_tasks, "recv", "xv", c) # 0

\* Whether the edges E between the tasks N can be removed task by task,
\* taking each time the tasks that no remaining task unlocks: they can if
\* and only if E has no cycle within N.
RECURSIVE Unwinds(_, _)
Unwinds(N, E) ==
  LET free == {n \in N : \A e \in E : e[2] = n => e[1] \notin N}
  IN IF N = {} THEN TRUE
     ELSE IF free = {} THEN FALSE
     ELSE Unwinds(N \ free, E)

\* C29: the unlock graph engine_maketasks makes has no cycle, for every
\* combination of the hydro, self-gravity, external-gravity, cooling and MPI
\* policies; every unlock edge joins two tasks of the array.
UnlockGraphAcyclic ==
  mk_made =>
    /\ \A e \in mk_unlocks : e[1] \in DOMAIN mk_tasks /\ e[2] \in DOMAIN mk_tasks
    /\ Unwinds(DOMAIN mk_tasks, mk_unlocks)

\* A graph has been made with all five policies and a foreign cell: it has
\* hydro loops, gravity tasks, a cooling task and send and recv tasks.
GraphOfAllPolicies ==
  /\ mk_made
  /\ mk_policy = {"hydro", "self_gravity", "external_gravity", "cooling", "mpi"}
  /\ \A type \in {"pair", "grav_mm", "grav_up", "grav_fft", "cooling", "send",
                   "recv", "ghost"} : MadeOfType(type) # {}
  /\ \E i \in DOMAIN mk_tasks : mk_tasks[i].subtype = "external_grav"

(***************************************************************************)
(* engine_exchange_cells on every node.  A node has one proxy per          *)
(* neighbouring node; a request is "none" before it is made, "posted",     *)
(* "complete" and, once MPI_Waitany has returned it, "null".  A message    *)
(* sent is in flight until the matching receive, once posted, takes it; a  *)
(* send request completes then, or earlier if MPI buffers the message.     *)
(***************************************************************************)
\* The neighbour relations of the nodes followed: the non-empty sets of
\* pairs of nodes.
Topologies ==
  SUBSET {P \in {{a, b} : a, b \in Nodes} : Cardinality(P) = 2} \ {{}}

NoRequests ==
  [count_in |-> "none", count_out |-> "none", cells_in |-> "none",
   cells_out |-> "none"]

\* The number of elements of sequence s equal to x.
Occurrences(s, x) == Cardinality({k \in DOMAIN s : s[k] = x})

\* proxy_cells_exch1 on every proxy of node n: the count is sent and the
\* receive of the peer's count is posted.
exchange_cells_launch(n) ==
  /\ xc_pc[n] = "start"
  /\ xc_req' = [xc_req EXCEPT ![n] =
                  [p \in Nodes |->
                     IF p \in xc_peers[n]
                     THEN [xc_req[n][p] EXCEPT !.count_in = "posted",
                                               !.count_out = "posted"]
                     ELSE xc_req[n][p]]]
  /\ xc_net' = xc_net \cup {<<n, p, "count">> : p \in xc_peers[n]}
  /\ xc_pc' = [xc_pc EXCEPT ![n] = "wait_count"]
  /\ xc_iter' = [xc_iter EXCEPT ![n] = Cardinality(xc_peers[n])]
  /\ UNCHANGED <<xc_peers, xc_got, xc_exch2, xc_unpacked>>
  /\ UNCHANGED <<cfgVars, markVars, launchVars, moveVars, stepVars, linkVars,
                 hashVars, gridVars, makeVars, alVars, mpVars,
                 bhVars, lgVars, ppVars, snVars>>

\* One iteration of the first loop with the proxies taken in the order of
\* the loop index, whether their count has come in or not.
exchange_cells_count_in_order(n) ==
  /\ xc_pc[n] = "wait_count"
  /\ xc_iter[n] > 0
  /\ \E pid \in xc_peers[n] :
       /\ xc_req[n][pid].count_in \in {"posted", "complete"}
       /\ \A q \in xc_peers[n] :
            q < pid => xc_req[n][q].count_in = "null"
       /\ xc_req' = [xc_req EXCEPT ![n][pid].count_in = "null",
                                   ![n][pid].cells_in = "posted",
                                   ![n][pid].cells_out = "posted"]
       /\ xc_net' = xc_net \cup {<<n, pid, "cells">>}
       /\ xc_exch2' = [xc_exch2 EXCEPT ![n] = Append(@, pid)]
  /\ xc_iter' = [xc_iter EXCEPT ![n] = @ - 1]
  /\ UNCHANGED <<xc_peers, xc_pc, xc_got, xc_unpacked>>
  /\ UNCHANGED <<cfgVars, markVars, launchVars, moveVars, stepVars, linkVars,
                 hashVars, gridVars, makeVars, alVars, mpVars,
                 bhVars, lgVars, ppVars, snVars>>

\* One iteration of the first loop: MPI_Waitany returns a proxy pid whose
\* count has come in, and proxy_cells_exch2 sends the packed cells to it
\* and posts the receive of its packed cells.
exchange_cells_count(n) ==
  /\ xc_pc[n] = "wait_count"
  /\ xc_iter[n] > 0
  /\ \E pid \in xc_peers[n] :
       /\ xc_req[n][pid].count_in = "complete"
       /\ xc_req' = [xc_req EXCEPT ![n][pid].count_in = "null",
                                   ![n][pid].cells_in = "posted",
                                   ![n][pid].cells_out = "posted"]
       /\ xc_net' = xc_net \cup {<<n, pid, "cells">>}
       /\ xc_exch2' = [xc_exch2 EXCEPT ![n] = Append(@, pid)]
  /\ xc_iter' = [xc_iter EXCEPT ![n] = @ - 1]
  /\ UNCHANGED <<xc_peers, xc_pc, xc_got, xc_unpacked>>
  /\ UNCHANGED <<cfgVars, markVars, launchVars, moveVars, stepVars, linkVars,
                 hashVars, gridVars, makeVars, alVars, mpVars,
                 bhVars, lgVars, ppVars, snVars>>

\* MPI_Waitall on the sends of the counts, after the first loop.
exchange_cells_counts_sent(n) ==
  /\ xc_pc[n] = "wait_count"
  /\ xc_iter[n] = 0
  /\ \A p \in xc_peers[n] : xc_req[n][p].count_out = "complete"
  /\ xc_pc' = [xc_pc EXCEPT ![n] = "wait_cells"]
  /\ xc_iter' = [xc_iter EXCEPT ![n] = Cardinality(xc_peers[n])]
  /\ UNCHANGED <<xc_peers, xc_req, xc_net, xc_got, xc_exch2, xc_unpacked>>
  /\ UNCHANGED <<cfgVars, markVars, launchVars, moveVars, stepVars, linkVars,
                 hashVars, gridVars, makeVars, alVars, mpVars,
                 bhVars, lgVars, ppVars, snVars>>

\* One iteration of the second loop: MPI_Waitany returns a proxy pid whose
\* packed cells have come in, and they are unpacked.
exchange_cells_unpack(n) ==
  /\ xc_pc[n] = "wait_cells"
  /\ xc_iter[n] > 0
  /\ \E pid \in xc_peers[n] :
       /\ xc_req[n][pid].cells_in = "complete"
       /\ xc_req' = [xc_req EXCEPT ![n][pid].cells_in = "null"]
       /\ xc_unpacked' = [xc_unpacked EXCEPT ![n] = Append(@, pid)]
  /\ xc_iter' = [xc_iter EXCEPT ![n] = @ - 1]
  /\ UNCHANGED <<xc_peers, xc_pc, xc_net, xc_got, xc_exch2>>
  /\ UNCHANGED <<cfgVars, markVars, launchVars, moveVars, stepVars, linkVars,
                 hashVars, gridVars, makeVars, alVars, mpVars,
                 bhVars, lgVars, ppVars, snVars>>

\* MPI_Waitall on the sends of the packed cells, after the second loop.
exchange_cells_cells_sent(n) ==
  /\ xc_pc[n] = "wait_cells"
  /\ xc_iter[n] = 0
  /\ \A p \in xc_peers[n] : xc_req[n][p].cells_out = "complete"
  /\ xc_pc' = [xc_pc EXCEPT ![n] = "done"]
  /\ UNCHANGED <<xc_peers, xc_iter, xc_req, xc_net, xc_got, xc_exch2,
                 xc_unpacked>>
  /\ UNCHANGED <<cfgVars, markVars, launchVars, moveVars, stepVars, linkVars,
                 hashVars, gridVars, makeVars, alVars, mpVars,
                 bhVars, lgVars, ppVars, snVars>>

\* MPI: the message of the given kind from src is taken by the receive dst
\* has posted for it; both requests are complete.
mpi_deliver(src, dst, kind) ==
  /\ <<src, dst, kind>> \in xc_net
  /\ IF kind = "count"
     THEN /\ xc_req[dst][src].count_in = "posted"
          /\ xc_req' = [xc_req EXCEPT ![dst][src].count_in = "complete",
                                      ![src][dst].count_out = "complete"]
     ELSE /\ xc_req[dst][src].cells_in = "posted"
          /\ xc_req' = [xc_req EXCEPT ![dst][src].cells_in = "complete",
                                      ![src][dst].cells_out = "complete"]
  /\ xc_net' = xc_net \ {<<src, dst, kind>>}
  /\ xc_got' = [xc_got EXCEPT ![dst][src] = @ \cup {kind}]
  /\ UNCHANGED <<xc_peers, xc_pc, xc_iter, xc_exch2, xc_unpacked>>
  /\ UNCHANGED <<cfgVars, markVars, launchVars, moveVars, stepVars, linkVars,
                 hashVars, gridVars, makeVars, alVars, mpVars,
                 bhVars, lgVars, ppVars, snVars>>

\* MPI: a message in flight is buffered, which completes its send request
\* before the message is received.
mpi_buffer(src, dst, kind) ==
  /\ <<src, dst, kind>> \in xc_net
  /\ IF kind = "count"
     THEN /\ xc_req[src][dst].count_out = "posted"
          /\ xc_req' = [xc_req EXCEPT ![src][dst].count_out = "complete"]
     ELSE /\ xc_req[src][dst].cells_out = "posted"
          /\ xc_req' = [xc_req EXCEPT ![src][dst].cells_out = "complete"]
  /\ UNCHANGED <<xc_peers, xc_pc, xc_iter, xc_net, xc_got, xc_exch2,
                 xc_unpacked>>
  /\ UNCHANGED <<cfgVars, markVars, launchVars, moveVars, stepVars, linkVars,
                 hashVars, gridVars, makeVars, alVars, mpVars,
                 bhVars, lgVars, ppVars, snVars>>

\* Every node is about to call engine_exchange_cells; every pair of
\* neighbouring nodes holds proxies for each other.
InitXch ==
  /\ EngineParked /\ MoveParked /\ LinkParked /\ HashParked /\ GridParked /\ AddlinkParked /\ ProxiesParked /\ BHParked /\ LoggerParked /\ PrepareParked /\ SnapParked
  /\ MakeParked
  /\ \E T \in Topologies :
       xc_peers = [n \in Nodes |-> {p \in Nodes \ {n} : {n, p} \in T}]
  /\ xc_pc = [n \in Nodes |-> "start"]
  /\ xc_iter = [n \in Nodes |-> 0]
  /\ xc_req = [n \in Nodes |-> [p \in Nodes |-> NoRequests]]
  /\ xc_net = {}
  /\ xc_got = [n \in Nodes |-> [p \in Nodes |-> {}]]
  /\ xc_exch2 = [n \in Nodes |-> << >>]
  /\ xc_unpacked = [n \in Nodes |-> << >>]

engine_exchange_cells(n) ==
  \/ exchange_cells_launch(n)
  \/ exchange_cells_count(n)
  \/ exchange_cells_counts_sent(n)
  \/ exchange_cells_unpack(n)
  \/ exchange_cells_cells_sent(n)

\* A step of a node or the delivery of a message.
XchProgress ==
  \/ \E n \in Nodes : engine_exchange_cells(n)
  \/ \E src, dst \in Nodes, kind \in {"count", "cells"} :
       mpi_deliver(src, dst, kind)

NextXch ==
  \/ XchProgress
  \/ \E src, dst \in Nodes, kind \in {"count", "cells"} :
       mpi_buffer(src, dst, kind)

SpecXch == InitXch /\ [][NextXch]_vars

XchDone == \A n \in Nodes : xc_pc[n] = "done"

\* C30: for every proxy, phase 2 is started at most once and only after the
\* proxy's incoming count has arrived, and its cells are unpacked at most
\* once and only after its packed cells have arrived; a node that has
\* returned has done both exactly once for every proxy; and when all nodes
\* call the function there is no deadlock: until every node has returned,
\* a node can go on or a message can be delivered.
ExchangeCellsInOrder ==
  /\ (\A n, p \in Nodes :
          /\ Occurrences(xc_exch2[n], p) <= 1
          /\ Occurrences(xc_unpacked[n], p) <= 1
          /\ Occurrences(xc_exch2[n], p) = 1 => "count" \in xc_got[n][p]
          /\ Occurrences(xc_unpacked[n], p) = 1 =>
               ("cells" \in xc_got[n][p] /\ Occurrences(xc_exch2[n], p) = 1)
          /\ p \notin xc_peers[n] =>
               (Occurrences(xc_exch2[n], p) = 0 /\ Occurrences(xc_unpacked[n], p) = 0)
          /\ (xc_pc[n] = "done" /\ p \in xc_peers[n]) =>
               (Occurrences(xc_exch2[n], p) = 1 /\ Occurrences(xc_unpacked[n], p) = 1))
  /\ ~XchDone => ENABLED XchProgress

\* Every node has returned, and a node with two proxies has handled them
\* against the order of the loop index, in both loops.
ExchangedOutOfOrder ==
  /\ XchDone
  /\ \E n \in Nodes :
       /\ Len(xc_exch2[n]) = 2 /\ xc_exch2[n][1] > xc_exch2[n][2]
       /\ Len(xc_unpacked[n]) = 2 /\ xc_unpacked[n][1] > xc_unpacked[n][2]

(***************************************************************************)
(* engine_addlink called by several threads at once.  A call takes its     *)
(* slot with atomic_inc, writes the task into the slot, exchanges the slot *)
(* with the head of the list with atomic_swap and writes the old head into *)
(* the slot's next.  A slot's next is Indeterminate until it is written:   *)
(* the pool comes from malloc.                                             *)
(***************************************************************************)
\* The threads that call engine_addlink, one call each.
MaxCallers == 3

AddCallers == 1..MaxCallers

AddLists == {"ci->density", "cj->density"}

\* The task of a call: each thread adds the task it has made.
AddTasks == AddCallers

\* The task of the link a list may hold before the calls.
HeldTask == Cardinality(AddTasks) + 1

Indeterminate == -2

\* atomic_inc(&e->nr_links) with the increment of a plain ++: the write of
\* a thread is lost when another thread is between its read and its write.
addlink_inc_racy(n) ==
  /\ al_err = ""
  /\ al_pc[n] = "inc"
  /\ al_ind' = [al_ind EXCEPT ![n] = al_nr_links]
  /\ al_nr_links' = IF \E o \in AddCallers : al_pc[o] = "store_t"
                    THEN al_nr_links ELSE al_nr_links + 1
  /\ IF al_nr_links >= al_size
     THEN al_err' = "Link table overflow." /\ UNCHANGED al_pc
     ELSE al_pc' = [al_pc EXCEPT ![n] = "store_t"] /\ UNCHANGED al_err
  /\ UNCHANGED <<al_size, al_links, al_heads, al_old, al_arg>>
  /\ UNCHANGED <<cfgVars, markVars, launchVars, moveVars, stepVars, linkVars,
                 hashVars, gridVars, makeVars, xchVars, mpVars,
                 bhVars, lgVars, ppVars, snVars>>

\* const int ind = atomic_inc(&e->nr_links); if (ind >= e->size_links)
\* error("Link table overflow.");
addlink_inc(n) ==
  /\ al_err = ""
  /\ al_pc[n] = "inc"
  /\ al_ind' = [al_ind EXCEPT ![n] = al_nr_links]
  /\ al_nr_links' = al_nr_links + 1
  /\ IF al_nr_links >= al_size
     THEN al_err' = "Link table overflow." /\ UNCHANGED al_pc
     ELSE al_pc' = [al_pc EXCEPT ![n] = "store_t"] /\ UNCHANGED al_err
  /\ UNCHANGED <<al_size, al_links, al_heads, al_old, al_arg>>
  /\ UNCHANGED <<cfgVars, markVars, launchVars, moveVars, stepVars, linkVars,
                 hashVars, gridVars, makeVars, xchVars, mpVars,
                 bhVars, lgVars, ppVars, snVars>>

\* res->t = t;
addlink_store_t(n) ==
  /\ al_err = ""
  /\ al_pc[n] = "store_t"
  /\ al_links' = [al_links EXCEPT ![al_ind[n]].t = al_arg[n].t]
  /\ al_pc' = [al_pc EXCEPT ![n] = "swap"]
  /\ UNCHANGED <<al_size, al_nr_links, al_heads, al_ind, al_old, al_arg, al_err>>
  /\ UNCHANGED <<cfgVars, markVars, launchVars, moveVars, stepVars, linkVars,
                 hashVars, gridVars, makeVars, xchVars, mpVars,
                 bhVars, lgVars, ppVars, snVars>>

\* atomic_swap(l, res): the head of the list becomes the slot, and the old
\* head is the value of the call.
addlink_swap(n) ==
  /\ al_err = ""
  /\ al_pc[n] = "swap"
  /\ al_heads' = [al_heads EXCEPT ![al_arg[n].l] = al_ind[n]]
  /\ al_old' = [al_old EXCEPT ![n] = al_heads[al_arg[n].l]]
  /\ al_pc' = [al_pc EXCEPT ![n] = "store_next"]
  /\ UNCHANGED <<al_size, al_nr_links, al_links, al_ind, al_arg, al_err>>
  /\ UNCHANGED <<cfgVars, markVars, launchVars, moveVars, stepVars, linkVars,
                 hashVars, gridVars, makeVars, xchVars, mpVars,
                 bhVars, lgVars, ppVars, snVars>>

\* res->next = <the old head>; and the call returns.
addlink_store_next(n) ==
  /\ al_err = ""
  /\ al_pc[n] = "store_next"
  /\ al_links' = [al_links EXCEPT ![al_ind[n]].next = al_old[n]]
  /\ al_pc' = [al_pc EXCEPT ![n] = "done"]
  /\ UNCHANGED <<al_size, al_nr_links, al_heads, al_ind, al_old, al_arg, al_err>>
  /\ UNCHANGED <<cfgVars, markVars, launchVars, moveVars, stepVars, linkVars,
                 hashVars, gridVars, makeVars, xchVars, mpVars,
                 bhVars, lgVars, ppVars, snVars>>

\* The pool before the calls: empty, or with one link held by ci->density.
InitAddlink ==
  /\ EngineParked /\ MoveParked /\ LinkParked /\ HashParked /\ GridParked /\ ProxiesParked /\ BHParked /\ LoggerParked /\ PrepareParked /\ SnapParked
  /\ MakeParked /\ XchParked
  /\ al_nr_links \in {0, 1}
  /\ al_size \in (Cardinality(AddCallers) + al_nr_links - 1)
                   ..(Cardinality(AddCallers) + al_nr_links)
  /\ al_links = [k \in 0..(al_size - 1) |->
                   IF k < al_nr_links THEN [t |-> HeldTask, next |-> -1]
                   ELSE [t |-> Indeterminate, next |-> Indeterminate]]
  /\ al_heads = [l \in AddLists |->
                   IF l = "ci->density" /\ al_nr_links = 1 THEN 0 ELSE -1]
  /\ al_pc = [n \in AddCallers |-> "inc"]
  /\ al_ind = [n \in AddCallers |-> -1]
  /\ al_old = [n \in AddCallers |-> Indeterminate]
  /\ al_arg \in {a \in [AddCallers -> [l : AddLists, t : AddTasks]] :
                   \A n \in AddCallers : a[n].t = n}
  /\ al_err = ""

NextAddlink ==
  \E n \in AddCallers :
    \/ addlink_inc(n)
    \/ addlink_store_t(n)
    \/ addlink_swap(n)
    \/ addlink_store_next(n)

SpecAddlink == InitAddlink /\ [][NextAddlink]_vars

\* The links of a list from the slot k on, as slots; a walk ends at NULL
\* and at a next that has not been written.
RECURSIVE AddWalk(_, _)
AddWalk(k, fuel) ==
  IF k < 0 \/ fuel = 0 THEN <<>>
  ELSE <<k>> \o AddWalk(al_links[k].next, fuel - 1)

AddListOf(l) == AddWalk(al_heads[l], al_size + 1)

AddlinkReturned == \A n \in AddCallers : al_pc[n] = "done"

\* C31: the calls that have taken a slot hold different slots of the pool,
\* none of them a slot held before the calls; and once every call has
\* returned, each list is made of the slots of the calls on it, each once,
\* with the tasks of these calls, followed by the links it held before.
ConcurrentAddlinkKeepsLinks ==
  /\ \A n, o \in AddCallers :
       al_ind[n] # -1 /\ al_ind[o] # -1 /\ n # o => al_ind[n] # al_ind[o]
  /\ \A n \in AddCallers :
       al_pc[n] # "inc" => al_ind[n] < al_size /\ al_links[al_ind[n]].t # HeldTask
  /\ AddlinkReturned =>
       \A l \in AddLists :
         LET w == AddListOf(l)
             on == {n \in AddCallers : al_arg[n].l = l}
             held == {k \in 1..Len(w) : al_links[w[k]].t = HeldTask}
         IN /\ \A n \in on :
                 /\ Occurrences(w, al_ind[n]) = 1
                 /\ al_links[al_ind[n]].t = al_arg[n].t
            /\ Len(w) = Cardinality(on) + Cardinality(held)
            /\ held = IF l = "ci->density" /\ al_links[0].t = HeldTask
                      THEN {Len(w)} ELSE {}
            /\ Len(w) = 0 \/ al_links[w[Len(w)]].next = -1

\* C31 witness: three calls on the list that held a link have returned, and
\* the list is not in the order of the slots: a call took its slot before
\* another and exchanged the head after it.
AddlinkInterleaved ==
  /\ AddlinkReturned
  /\ \A n \in AddCallers : al_arg[n].l = "ci->density"
  /\ al_links[0].t = HeldTask
  /\ \E k \in DOMAIN al_links : al_links[k].next > k

(***************************************************************************)
(* engine_makeproxies on every node of a run.  The nodes hold the same     *)
(* grid of top-level cells and the same nodeID of each cell; each node     *)
(* fills its own proxies, its proxy_ind and the sendto of its cells.  A    *)
(* proxy is its peer node and its cells_in and cells_out; pid counts from  *)
(* 0, and sendto is kept as the set of the pids whose bit is set.          *)
(***************************************************************************)
\* The largest number of nodes and of top-level cells followed.
MaxProxyNodes == 3

MaxProxyCells == 4

ProxyNodes == 0..(MaxProxyNodes - 1)

\* proxy_addcell_in and proxy_addcell_out: the cell is added at the end of
\* the list unless the list holds it.
proxy_addcell(cells, c) ==
  IF \E k \in DOMAIN cells : cells[k] = c THEN cells ELSE Append(cells, c)

\* if (ii >= cdim[0]) ii -= cdim[0]; else if (ii < 0) ii += cdim[0];
proxy_wrap(ii, cd) == IF ii >= cd THEN ii - cd ELSE IF ii < 0 THEN ii + cd ELSE ii

\* One of the two "Add to proxies?" blocks: loc is the cell of this node,
\* for the cell of another node.
makeproxies_add(st, me, loc, for) ==
  IF st.err # "" \/ ~(mp_nodeID[loc] = me /\ mp_nodeID[for] # me) THEN st
  ELSE
    LET peer == mp_nodeID[for]
        new == st.proxy_ind[peer] < 0
        pid == IF new THEN st.nr_proxies ELSE st.proxy_ind[peer]
    IN IF new /\ st.nr_proxies = mp_maxproxies
       THEN [st EXCEPT !.err = "Maximum number of proxies exceeded."]
       ELSE
         LET p == IF new
                  THEN [nodeID |-> peer, cells_in |-> << >>, cells_out |-> << >>]
                  ELSE st.proxies[pid]
         IN [st EXCEPT
               !.proxy_ind = [@ EXCEPT ![peer] = pid],
               !.nr_proxies = IF new THEN @ + 1 ELSE @,
               !.proxies = [q \in DOMAIN @ \cup {pid} |->
                              IF q = pid
                              THEN [p EXCEPT
                                      !.cells_in = proxy_addcell(@, for),
                                      !.cells_out = proxy_addcell(@, loc)]
                              ELSE @[q]],
               !.sendto = [@ EXCEPT ![loc] = @ \cup {pid}]]

\* The body of the loops with the first of its two blocks only.
makeproxies_pair_first_block(st, me, cid, n) ==
  LET x == GridCoord(mp_cdim, cid)
      ii == proxy_wrap(x[0] + (n \div 9) - 1, mp_cdim[0])
      jj == proxy_wrap(x[1] + ((n \div 3) % 3) - 1, mp_cdim[1])
      kk == proxy_wrap(x[2] + (n % 3) - 1, mp_cdim[2])
      cjd == cell_getid(mp_cdim, ii, jj, kk)
  IN makeproxies_add(st, me, cid, cjd)

\* The body of the loops over i, j, k for the cell cid and the neighbour
\* numbered n = (k + 1) + 3 * ((j + 1) + 3 * (i + 1)).
makeproxies_pair(st, me, cid, n) ==
  LET x == GridCoord(mp_cdim, cid)
      ii == proxy_wrap(x[0] + (n \div 9) - 1, mp_cdim[0])
      jj == proxy_wrap(x[1] + ((n \div 3) % 3) - 1, mp_cdim[1])
      kk == proxy_wrap(x[2] + (n % 3) - 1, mp_cdim[2])
      cjd == cell_getid(mp_cdim, ii, jj, kk)
  IN makeproxies_add(makeproxies_add(st, me, cid, cjd), me, cjd, cid)

\* The loops over i, j, k for the cell cid, from the neighbour n on.
RECURSIVE makeproxies_cell(_, _, _, _)
makeproxies_cell(st, me, cid, n) ==
  IF st.err # "" \/ n > 26 THEN st
  ELSE makeproxies_cell(makeproxies_pair(st, me, cid, n), me, cid, n + 1)

\* The loops over the cells, by increasing cell id, from the cell cid on.
RECURSIVE makeproxies_loop(_, _, _)
makeproxies_loop(st, me, cid) ==
  IF st.err # "" \/ cid \notin GridCells(mp_cdim) THEN st
  ELSE makeproxies_loop(makeproxies_cell(st, me, cid, 0), me, cid + 1)

\* engine_makeproxies(e) on the node me.
engine_makeproxies(me) ==
  /\ mp_cdim # << >>
  /\ ~mp_done[me]
  /\ \E st \in {makeproxies_loop(
                 [proxy_ind |-> [k \in ProxyNodes |-> -1], nr_proxies |-> 0,
                  proxies |-> << >>, err |-> "",
                  sendto |-> [c \in GridCells(mp_cdim) |-> {}]], me, 0)} :
        /\ mp_proxy_ind' = [mp_proxy_ind EXCEPT ![me] = st.proxy_ind]
        /\ mp_proxies' = [mp_proxies EXCEPT ![me] = st.proxies]
        /\ mp_sendto' = [mp_sendto EXCEPT ![me] = st.sendto]
        /\ mp_err' = [mp_err EXCEPT ![me] = st.err]
  /\ mp_done' = [mp_done EXCEPT ![me] = TRUE]
  /\ UNCHANGED <<mp_cdim, mp_nodeID, mp_maxproxies>>
  /\ UNCHANGED <<cfgVars, markVars, launchVars, moveVars, stepVars, linkVars,
                 hashVars, gridVars, makeVars, xchVars, alVars, bhVars,
                 lgVars, ppVars, snVars>>

\* The runs followed: every grid of up to MaxCdim cells a side and
\* MaxProxyCells cells in all, with every assignment of the cells to the
\* nodes in which the cell 0 is a cell of the node 0 (the function reads a
\* nodeID to compare it and to index proxy_ind only), and a proxy array
\* with room for a proxy for every other node or for all of them but one.
InitProxies ==
  /\ EngineParked /\ MoveParked /\ LinkParked /\ HashParked /\ GridParked /\ BHParked /\ LoggerParked /\ PrepareParked /\ SnapParked
  /\ MakeParked /\ XchParked /\ AddlinkParked
  /\ mp_cdim \in [0..2 -> 1..MaxCdim]
  /\ Cardinality(GridCells(mp_cdim)) <= MaxProxyCells
  /\ mp_nodeID \in {f \in [GridCells(mp_cdim) -> ProxyNodes] : f[0] = 0}
  /\ mp_maxproxies \in (MaxProxyNodes - 2)..(MaxProxyNodes - 1)
  /\ mp_proxy_ind = [n \in ProxyNodes |-> << >>]
  /\ mp_proxies = [n \in ProxyNodes |-> << >>]
  /\ mp_sendto = [n \in ProxyNodes |-> << >>]
  /\ mp_err = [n \in ProxyNodes |-> ""]
  /\ mp_done = [n \in ProxyNodes |-> FALSE]

NextProxies == \E me \in ProxyNodes : engine_makeproxies(me)

SpecProxies == InitProxies /\ [][NextProxies]_vars

\* engine_makeproxies has returned on the node n.
ProxiesMade(n) == mp_done[n] /\ mp_err[n] = ""

\* The proxy of the node a for the node b.
ProxyFor(a, b) == mp_proxies[a][mp_proxy_ind[a][b]]

\* C32: once engine_makeproxies has returned on a node, its proxies have
\* different peer nodes, none the node itself, each has an incoming and an
\* outgoing cell, and proxy_ind[n] is -1 or the index of the proxy whose
\* peer is n; and once it has returned on two nodes a and b, a has a proxy
\* for b exactly if b has one for a, and the cells_out of a's proxy for b
\* is the cells_in of b's proxy for a, cell by cell.
ProxiesMirrorEachOther ==
  /\ \A a \in ProxyNodes :
       ProxiesMade(a) =>
         /\ \A p, q \in DOMAIN mp_proxies[a] :
              /\ p # q => mp_proxies[a][p].nodeID # mp_proxies[a][q].nodeID
              /\ mp_proxies[a][p].nodeID # a
              /\ Len(mp_proxies[a][p].cells_in) >= 1
              /\ Len(mp_proxies[a][p].cells_out) >= 1
              /\ mp_proxy_ind[a][mp_proxies[a][p].nodeID] = p
         /\ \A n \in ProxyNodes :
              \/ mp_proxy_ind[a][n] = -1
              \/ /\ mp_proxy_ind[a][n] \in DOMAIN mp_proxies[a]
                 /\ mp_proxies[a][mp_proxy_ind[a][n]].nodeID = n
  /\ \A a, b \in ProxyNodes :
       ProxiesMade(a) /\ ProxiesMade(b) /\ a # b =>
         /\ (mp_proxy_ind[a][b] = -1) = (mp_proxy_ind[b][a] = -1)
         /\ mp_proxy_ind[a][b] # -1 =>
              ProxyFor(a, b).cells_out = ProxyFor(b, a).cells_in

\* C32 witness: the function has returned on three nodes, each with a
\* proxy for both others, and a proxy sends two cells in an order that is
\* not the order of the cell ids.
ProxiesOfThreeNodes ==
  /\ \A a \in ProxyNodes : ProxiesMade(a) /\ DOMAIN mp_proxies[a] = 0..1
  /\ \E a, b \in ProxyNodes :
       /\ a # b
       /\ Len(ProxyFor(a, b).cells_out) >= 2
       /\ ProxyFor(a, b).cells_out[1] > ProxyFor(a, b).cells_out[2]

(***************************************************************************)
(* black_hole_select_accretion_mode.  The floats are followed as numbers   *)
(* of thousandths; a division by an accretion efficiency of 0 gives what   *)
(* IEEE arithmetic gives: infinity, or not-a-number for 0 times infinity.  *)
(***************************************************************************)
\* bp->eddington_fraction, bp->accretion_efficiency and
\* props->mdot_crit_ADAF, in thousandths.
EddingtonFractions == {0, 5, 500, 1000, 2000}

AccretionEfficiencies == {0, 100, 1000}

MdotCrits == {10}

AccretionModes == {"BH_thick_disc", "BH_thin_disc", "BH_slim_disc"}

\* eddington_fraction_Bondi < x and eddington_fraction_Bondi > x, for
\* eddington_fraction_Bondi = f * (1.f / e).
BondiBelow(f, e, x) == IF e = 0 THEN FALSE ELSE f * 1000 < x * e

BondiAbove(f, e, x) == IF e = 0 THEN f > 0 ELSE f * 1000 > x * e

\* The mode the function leaves in bp->accretion_mode.
select_accretion_mode(f, e, props) ==
  LET regime == IF BondiBelow(f, e, props.mdot_crit_ADAF) THEN "BH_thick_disc"
                ELSE IF BondiAbove(f, e, 1000) /\ props.include_slim_disk
                THEN "BH_slim_disc" ELSE "BH_thin_disc"
      forced == IF props.turn_off_radiative_feedback THEN "BH_thick_disc"
                ELSE regime
  IN IF ~props.include_jets THEN "BH_thin_disc" ELSE forced

\* black_hole_select_accretion_mode(bp, props).
black_hole_select_accretion_mode ==
  /\ bh_props # << >>
  /\ ~bh_selected
  /\ bh_accretion_mode' =
       select_accretion_mode(bh_eddington_fraction, bh_accretion_efficiency,
                             bh_props)
  /\ bh_selected' = TRUE
  /\ UNCHANGED <<bh_eddington_fraction, bh_accretion_efficiency, bh_props>>
  /\ UNCHANGED <<cfgVars, markVars, launchVars, moveVars, stepVars, linkVars,
                 hashVars, gridVars, makeVars, xchVars, alVars, mpVars,
                 lgVars, ppVars, snVars>>

\* A black hole in any mode, with any of the properties.
InitBH ==
  /\ EngineParked /\ MoveParked /\ LinkParked /\ HashParked /\ GridParked /\ MakeParked /\ XchParked /\ AddlinkParked /\ ProxiesParked /\ LoggerParked /\ PrepareParked /\ SnapParked
  /\ bh_eddington_fraction \in EddingtonFractions
  /\ bh_accretion_efficiency \in AccretionEfficiencies
  /\ bh_accretion_mode \in AccretionModes
  /\ bh_props \in [mdot_crit_ADAF : MdotCrits, include_slim_disk : BOOLEAN,
                   turn_off_radiative_feedback : BOOLEAN,
                   include_jets : BOOLEAN]
  /\ bh_selected = FALSE

NextBH == black_hole_select_accretion_mode

SpecBH == InitBH /\ [][NextBH]_vars

\* C33: after black_hole_select_accretion_mode, a black hole whose
\* properties have turn_off_radiative_feedback set is in the thick-disc
\* mode.
RadiativeOffMeansThickDisc ==
  bh_selected /\ bh_props.turn_off_radiative_feedback =>
    bh_accretion_mode = "BH_thick_disc"

\* With jets included the mode is the thick disc whenever radiative
\* feedback is turned off.
RadiativeOffWithJetsMeansThickDisc ==
  bh_selected /\ bh_props.turn_off_radiative_feedback /\ bh_props.include_jets =>
    bh_accretion_mode = "BH_thick_disc"

(***************************************************************************)
(* The particle logger.  A mask is the set of the logger_mask_ bits set in *)
(* it, each bit named by its field; the dump is the number of bytes given  *)
(* out and, for each offset given out, what was written there: the header, *)
(* as the offset in its low 56 bits and the mask in its high 8 bits, and   *)
(* the sizes of the fields copied after it, in the order of the copies.    *)
(* The sizes are these of an LP64 build: sizeof(double) = 8,               *)
(* sizeof(float) = 4, sizeof(long long) = 8.                               *)
(***************************************************************************)
\* The largest number of calls followed and the particles logged.
MaxLogs == 3

LoggedParts == {1, 2}

LoggerBits == {"x", "v", "a", "u", "h", "rho", "consts", "timestamp"}

\* The masks of the calls followed.
LoggedMasks ==
  {{}, {"x"}, {"rho"}, {"consts"}, {"timestamp"}, {"x", "timestamp"},
   LoggerBits \ {"timestamp"}}

RECURSIVE SumSeq(_)
SumSeq(s) == IF s = << >> THEN 0 ELSE Head(s) + SumSeq(Tail(s))

\* logger_size with the particle constants counted for logger_mask_consts.
logger_size_consts(mask) ==
  8 + (IF "timestamp" \in mask THEN 8
       ELSE (IF "x" \in mask THEN 3 * 8 ELSE 0)
          + (IF "v" \in mask THEN 3 * 4 ELSE 0)
          + (IF "a" \in mask THEN 3 * 4 ELSE 0)
          + (IF "u" \in mask THEN 4 ELSE 0)
          + (IF "h" \in mask THEN 4 ELSE 0)
          + (IF "rho" \in mask THEN 4 ELSE 0)
          + (IF "consts" \in mask THEN 4 + 8 ELSE 0))

\* logger_size(mask), for a mask the function accepts.
logger_size(mask) ==
  8 + (IF "timestamp" \in mask THEN 8
       ELSE (IF "x" \in mask THEN 3 * 8 ELSE 0)
          + (IF "v" \in mask THEN 3 * 4 ELSE 0)
          + (IF "a" \in mask THEN 3 * 4 ELSE 0)
          + (IF "u" \in mask THEN 4 ELSE 0)
          + (IF "h" \in mask THEN 4 ELSE 0)
          + (IF "rho" \in mask THEN 4 ELSE 0)
          + (IF "rho" \in mask THEN 4 + 8 ELSE 0))

\* The sizes of the copies logger_log_part makes after the header, in
\* their order.
logger_copies(mask) ==
     (IF "x" \in mask THEN <<3 * 8>> ELSE << >>)
  \o (IF "v" \in mask THEN <<3 * 4>> ELSE << >>)
  \o (IF "a" \in mask THEN <<3 * 4>> ELSE << >>)
  \o (IF "u" \in mask THEN <<4>> ELSE << >>)
  \o (IF "h" \in mask THEN <<4>> ELSE << >>)
  \o (IF "rho" \in mask THEN <<4>> ELSE << >>)
  \o (IF "rho" \in mask THEN <<4, 8>> ELSE << >>)

\* logger_log_part(p, mask, offset, dump), offset being the offset kept
\* for the particle p.  dump_get gives out the next size bytes of the dump
\* and their offset.
logger_log_part(p, mask) ==
  /\ lg_err = ""
  /\ lg_offset # << >>
  /\ lg_calls < MaxLogs
  /\ lg_calls' = lg_calls + 1
  /\ IF "timestamp" \in mask
     THEN /\ lg_err' = "You should not log particles as timestamps."
          /\ UNCHANGED <<lg_count, lg_data, lg_offset, lg_chain>>
     ELSE LET size == logger_size(mask)
              offset_new == lg_count
          IN /\ lg_count' = lg_count + size
             /\ lg_data' = [o \in DOMAIN lg_data \cup {offset_new} |->
                              IF o = offset_new
                              THEN [size |-> size,
                                    header |-> [offset |-> lg_offset[p],
                                                mask |-> mask],
                                    copies |-> logger_copies(mask)]
                              ELSE lg_data[o]]
             /\ lg_offset' = [lg_offset EXCEPT ![p] = offset_new]
             /\ lg_chain' = [lg_chain EXCEPT ![p] = Append(@, offset_new)]
             /\ UNCHANGED lg_err
  /\ UNCHANGED lg_first
  /\ UNCHANGED <<cfgVars, markVars, launchVars, moveVars, stepVars, linkVars,
                 hashVars, gridVars, makeVars, xchVars, alVars, mpVars,
                 bhVars, ppVars, snVars>>

\* An empty dump, and particles that have not been logged: the offset kept
\* for a particle is the value it was given at the start.
InitLogger ==
  /\ EngineParked /\ MoveParked /\ LinkParked /\ HashParked /\ GridParked /\ MakeParked /\ XchParked /\ AddlinkParked /\ ProxiesParked /\ BHParked /\ PrepareParked /\ SnapParked
  /\ lg_count = 0
  /\ lg_data = << >>
  /\ lg_first \in [LoggedParts -> {0, 1}]
  /\ lg_offset = lg_first
  /\ lg_chain = [p \in LoggedParts |-> << >>]
  /\ lg_calls = 0
  /\ lg_err = ""

NextLogger == \E p \in LoggedParts, mask \in LoggedMasks : logger_log_part(p, mask)

SpecLogger == InitLogger /\ [][NextLogger]_vars

\* The bytes written at the offset o: the header and the copies.
BytesWritten(o) == 8 + SumSeq(lg_data[o].copies)

\* The offsets of the records of a particle, the last written first, as
\* the headers give them from the offset o on, for n records.
RECURSIVE LoggedChain(_, _)
LoggedChain(o, n) ==
  IF n = 0 THEN << >>
  ELSE <<o>> \o LoggedChain(lg_data[o].header.offset, n - 1)

\* C34: for every mask without the timestamp bit the copies of
\* logger_log_part and the header come to logger_size(mask) bytes; a call
\* with such a mask writes one record of that size at the offset the dump
\* gives out, with the offset kept for the particle and the mask in its
\* header, and keeps the offset of the record for the particle, so that
\* the headers lead from the last record of a particle back through all its
\* records to the offset the particle started with; a call with the
\* timestamp bit ends in the error and writes nothing.
LoggerChainsRecords ==
  /\ [](lg_calls = 0 =>
          \A mask \in SUBSET (LoggerBits \ {"timestamp"}) :
            8 + SumSeq(logger_copies(mask)) = logger_size(mask))
  /\ [](\A o \in DOMAIN lg_data :
          /\ BytesWritten(o) = lg_data[o].size
          /\ o + lg_data[o].size <= lg_count
          /\ \A q \in DOMAIN lg_data : q < o => q + lg_data[q].size <= o)
  /\ [](\A p \in LoggedParts :
          LET n == Len(lg_chain[p])
              w == LoggedChain(lg_offset[p], n)
          IN /\ \A k \in 1..n : w[k] = lg_chain[p][n + 1 - k]
             /\ lg_first[p] = IF n = 0 THEN lg_offset[p]
                              ELSE lg_data[w[n]].header.offset)
  /\ [][lg_calls' # lg_calls =>
          \/ /\ lg_err' # ""
             /\ lg_data' = lg_data /\ lg_count' = lg_count
             /\ lg_offset' = lg_offset
          \/ /\ lg_err' = ""
             /\ \E p \in LoggedParts :
                  /\ lg_offset'[p] = lg_count
                  /\ DOMAIN lg_data' = DOMAIN lg_data \cup {lg_count}
                  /\ lg_data'[lg_count].header.offset = lg_offset[p]
                  /\ "timestamp" \notin lg_data'[lg_count].header.mask
                  /\ lg_count' =
                       lg_count + logger_size(lg_data'[lg_count].header.mask)
                  /\ \A q \in LoggedParts \ {p} : lg_offset'[q] = lg_offset[q]
                  /\ \A o \in DOMAIN lg_data : lg_data'[o] = lg_data[o]]_vars

\* C34 witness: a particle has two records with the record of another
\* particle between them in the dump, the last of them with every field.
LoggedTwoChains ==
  /\ lg_err = ""
  /\ \E p, q \in LoggedParts :
       /\ Len(lg_chain[p]) = 2 /\ Len(lg_chain[q]) = 1
       /\ lg_chain[p][1] < lg_chain[q][1] /\ lg_chain[q][1] < lg_chain[p][2]
       /\ lg_data[lg_chain[p][2]].header.mask = LoggerBits \ {"timestamp"}
       /\ lg_first[p] # lg_first[q]

(***************************************************************************)
(* The safeguard of engine_launch on sched.waiting.                        *)
(***************************************************************************)
\* The engine has opened the barrier and has not yet removed the
\* safeguard: scheduler_start is still to run, or has just run.
SafeguardHeld == epc \in {"open", "loaded"}

\* C35: from the opening of the barrier in engine_launch until the engine
\* removes the safeguard after scheduler_start, sched.waiting is at least
\* 1, and no runner leaves its consume loop for the barrier.
WaitingHeldWhileLoading ==
  /\ [](SafeguardHeld => waiting >= 1)
  /\ [][SafeguardHeld =>
          \A w \in Threads : wpc[w] = "consume" => wpc'[w] # "enter"]_vars

\* C35 witness: a runner released by the broadcast is in its consume loop
\* while scheduler_start has not yet enqueued a task, in a launch with
\* tasks to run.
RunnerAheadOfSchedulerStart ==
  /\ epc = "open"
  /\ \E w \in Threads : wpc[w] = "consume"
  /\ \A i \in DOMAIN tasks : tstate[i] # "queued"
  /\ \E i \in DOMAIN tasks : skip[i] = 0

(***************************************************************************)
(* engine_prepare on every node, step after step.  forcerepart is the same *)
(* on all nodes (it is broadcast from node 0), so a step is a step after a *)
(* repartition on all nodes or on none.  MPI_Allreduce and the cell        *)
(* exchange of engine_rebuild are collective: a node leaves one when every *)
(* node has entered it.  engine_unskip sets forcerebuild on a node when a  *)
(* cell of the node has moved too far.                                     *)
(***************************************************************************)
\* The steps followed.
MaxPrepSteps == 2

PrepSteps == 1..MaxPrepSteps

\* engine_unskip(e) on a node: forcerebuild stays or is set.
engine_unskip(fr) == {fr, 1}

\* engine_step on node n up to its call of engine_prepare: after a
\* repartition, engine_repartition has set forcerebuild.
prepare_step(n) ==
  /\ pp_pc[n] = "step"
  /\ pp_forcerebuild' =
       [pp_forcerebuild EXCEPT ![n] = IF pp_repart[pp_step[n]] THEN 1 ELSE @]
  /\ pp_pc' = [pp_pc EXCEPT ![n] = "prepare"]
  /\ UNCHANGED <<pp_step, pp_repart, pp_rebuild, pp_sent, pp_entered, pp_took>>
  /\ UNCHANGED <<cfgVars, markVars, launchVars, moveVars, stepVars, linkVars,
                 hashVars, gridVars, makeVars, xchVars, alVars, mpVars,
                 bhVars, lgVars, snVars>>

\* engine_prepare(e, drift_all, postrepart) up to its call of
\* MPI_Allreduce: if (!postrepart) engine_unskip(e); rebuild =
\* e->forcerebuild; and the node enters the reduction.
prepare_enter(n) ==
  /\ pp_pc[n] = "prepare"
  /\ \E fr \in IF pp_repart[pp_step[n]] THEN {pp_forcerebuild[n]}
               ELSE engine_unskip(pp_forcerebuild[n]) :
       /\ pp_forcerebuild' = [pp_forcerebuild EXCEPT ![n] = fr]
       /\ pp_sent' = [pp_sent EXCEPT ![pp_step[n]][n] = fr]
  /\ pp_pc' = [pp_pc EXCEPT ![n] = "allreduce"]
  /\ UNCHANGED <<pp_step, pp_repart, pp_rebuild, pp_entered, pp_took>>
  /\ UNCHANGED <<cfgVars, markVars, launchVars, moveVars, stepVars, linkVars,
                 hashVars, gridVars, makeVars, xchVars, alVars, mpVars,
                 bhVars, lgVars, snVars>>

\* The reduction gives the node its own value.
prepare_allreduce_own_value(n) ==
  /\ pp_pc[n] = "allreduce"
  /\ \A m \in Nodes : pp_sent[pp_step[n]][m] # -1
  /\ pp_rebuild' = [pp_rebuild EXCEPT ![n] = pp_sent[pp_step[n]][n]]
  /\ pp_pc' = [pp_pc EXCEPT ![n] = "decide"]
  /\ UNCHANGED <<pp_step, pp_repart, pp_forcerebuild, pp_sent, pp_entered,
                 pp_took>>
  /\ UNCHANGED <<cfgVars, markVars, launchVars, moveVars, stepVars, linkVars,
                 hashVars, gridVars, makeVars, xchVars, alVars, mpVars,
                 bhVars, lgVars, snVars>>

\* MPI_Allreduce(&rebuild, &buff, 1, MPI_INT, MPI_MAX, MPI_COMM_WORLD) returns
\* on node n, every node having entered it; rebuild = buff.
prepare_allreduce(n) ==
  /\ pp_pc[n] = "allreduce"
  /\ \A m \in Nodes : pp_sent[pp_step[n]][m] # -1
  /\ pp_rebuild' = [pp_rebuild EXCEPT ![n] =
                      IF \E m \in Nodes : pp_sent[pp_step[n]][m] = 1
                      THEN 1 ELSE 0]
  /\ pp_pc' = [pp_pc EXCEPT ![n] = "decide"]
  /\ UNCHANGED <<pp_step, pp_repart, pp_forcerebuild, pp_sent, pp_entered,
                 pp_took>>
  /\ UNCHANGED <<cfgVars, markVars, launchVars, moveVars, stepVars, linkVars,
                 hashVars, gridVars, makeVars, xchVars, alVars, mpVars,
                 bhVars, lgVars, snVars>>

\* if (rebuild) { ... engine_rebuild(e); }: engine_rebuild clears
\* forcerebuild, rebuilds the space and enters engine_exchange_cells.
prepare_decide(n) ==
  /\ pp_pc[n] = "decide"
  /\ IF pp_rebuild[n] # 0
     THEN /\ pp_forcerebuild' = [pp_forcerebuild EXCEPT ![n] = 0]
          /\ pp_entered' = [pp_entered EXCEPT ![pp_step[n]] = @ \cup {n}]
          /\ pp_took' = [pp_took EXCEPT ![pp_step[n]][n] = "rebuild"]
          /\ pp_pc' = [pp_pc EXCEPT ![n] = "exchange"]
     ELSE /\ pp_took' = [pp_took EXCEPT ![pp_step[n]][n] = "skip"]
          /\ pp_pc' = [pp_pc EXCEPT ![n] = "finish"]
          /\ UNCHANGED <<pp_forcerebuild, pp_entered>>
  /\ UNCHANGED <<pp_step, pp_repart, pp_rebuild, pp_sent>>
  /\ UNCHANGED <<cfgVars, markVars, launchVars, moveVars, stepVars, linkVars,
                 hashVars, gridVars, makeVars, xchVars, alVars, mpVars,
                 bhVars, lgVars, snVars>>

\* engine_exchange_cells returns on node n, every node having entered it,
\* and engine_rebuild makes and marks the tasks.
prepare_exchange(n) ==
  /\ pp_pc[n] = "exchange"
  /\ pp_entered[pp_step[n]] = Nodes
  /\ pp_pc' = [pp_pc EXCEPT ![n] = "finish"]
  /\ UNCHANGED <<pp_step, pp_repart, pp_forcerebuild, pp_rebuild, pp_sent,
                 pp_entered, pp_took>>
  /\ UNCHANGED <<cfgVars, markVars, launchVars, moveVars, stepVars, linkVars,
                 hashVars, gridVars, makeVars, xchVars, alVars, mpVars,
                 bhVars, lgVars, snVars>>

\* if (postrepart) engine_unskip(e); the function returns and the node
\* goes on to its next step.
prepare_finish(n) ==
  /\ pp_pc[n] = "finish"
  /\ \E fr \in IF pp_repart[pp_step[n]] THEN engine_unskip(pp_forcerebuild[n])
               ELSE {pp_forcerebuild[n]} :
       pp_forcerebuild' = [pp_forcerebuild EXCEPT ![n] = fr]
  /\ IF pp_step[n] = MaxPrepSteps
     THEN pp_pc' = [pp_pc EXCEPT ![n] = "done"] /\ UNCHANGED pp_step
     ELSE /\ pp_pc' = [pp_pc EXCEPT ![n] = "step"]
          /\ pp_step' = [pp_step EXCEPT ![n] = @ + 1]
  /\ UNCHANGED <<pp_repart, pp_rebuild, pp_sent, pp_entered, pp_took>>
  /\ UNCHANGED <<cfgVars, markVars, launchVars, moveVars, stepVars, linkVars,
                 hashVars, gridVars, makeVars, xchVars, alVars, mpVars,
                 bhVars, lgVars, snVars>>

\* The nodes at the start of a step, with forcerebuild set on any of them.
InitPrepare ==
  /\ EngineParked /\ MoveParked /\ LinkParked /\ HashParked /\ GridParked /\ MakeParked /\ XchParked /\ AddlinkParked /\ ProxiesParked /\ BHParked /\ LoggerParked /\ SnapParked
  /\ pp_pc = [n \in Nodes |-> "step"]
  /\ pp_step = [n \in Nodes |-> 1]
  /\ pp_repart \in [PrepSteps -> BOOLEAN]
  /\ pp_forcerebuild \in [Nodes -> {0, 1}]
  /\ pp_rebuild = [n \in Nodes |-> 0]
  /\ pp_sent = [s \in PrepSteps |-> [n \in Nodes |-> -1]]
  /\ pp_entered = [s \in PrepSteps |-> {}]
  /\ pp_took = [s \in PrepSteps |-> [n \in Nodes |-> "none"]]

PrepareStep(n) ==
  \/ prepare_step(n)
  \/ prepare_enter(n)
  \/ prepare_allreduce(n)
  \/ prepare_decide(n)
  \/ prepare_exchange(n)
  \/ prepare_finish(n)

NextPrepare == \E n \in Nodes : PrepareStep(n)

SpecPrepare == InitPrepare /\ [][NextPrepare]_vars

\* C36: in every step the nodes that have taken their decision have taken
\* the same one, a node rebuilds exactly if forcerebuild was set on some
\* node when the nodes entered the reduction, and as long as a node has
\* not done all its steps some node can go on: no node waits in the cell
\* exchange for a node that skips it.
SameRebuildDecision ==
  /\ \A s \in PrepSteps :
       \A n, m \in Nodes :
         /\ pp_took[s][n] # "none" /\ pp_took[s][m] # "none" =>
              pp_took[s][n] = pp_took[s][m]
         /\ pp_took[s][n] # "none" =>
              /\ \A k \in Nodes : pp_sent[s][k] # -1
              /\ (pp_took[s][n] = "rebuild") = (\E k \in Nodes : pp_sent[s][k] = 1)
  /\ (\E n \in Nodes : pp_pc[n] # "done") => ENABLED NextPrepare

\* C36 witness: in a step without repartition one node had forcerebuild
\* set and another had not, and both have been through the rebuild.
RebuiltForAnotherNode ==
  \E s \in PrepSteps, n, m \in Nodes :
    /\ ~pp_repart[s]
    /\ pp_sent[s][n] = 1 /\ pp_sent[s][m] = 0
    /\ pp_took[s][n] = "rebuild" /\ pp_took[s][m] = "rebuild"
    /\ pp_step[m] > s \/ pp_pc[m] \in {"finish", "done"}

\* The pair and sub_pair density tasks of the graph made that are between a
\* local cell and a foreign cell, as <<task, local cell, foreign cell>>.
ForeignPairs ==
  {<<i, cl, cf>> \in (DOMAIN mk_tasks) \X Cells \X Cells :
     /\ mk_tasks[i].type \in {"pair", "sub_pair"}
     /\ mk_tasks[i].subtype = "density"
     /\ {cl, cf} = {mk_tasks[i].ci, mk_tasks[i].cj}
     /\ mk_nodeID[cl] = engine_rank
     /\ mk_nodeID[cf] # engine_rank}

\* C37: after engine_maketasks, for every pair or sub_pair density task
\* between a local cell and a foreign cell, the send_xv, send_rho and send_ti
\* lists of the local cell each hold a task addressed to the node of the
\* foreign cell, the super cell of the local cell has a drift task, and
\* recv_xv, recv_rho and recv_ti of the foreign cell are set.
SendAndRecvForForeignPairs ==
  mk_made =>
    \A p \in ForeignPairs :
      /\ \A subtype \in {"xv", "rho", "tend"} :
           /\ \E l \in SendLinks(mk_tasks, mk_nodeID, subtype, p[2]) :
                mk_nodeID[mk_tasks[l].cj] = mk_nodeID[p[3]]
           /\ TaskOf(mk_tasks, "recv", subtype, p[3]) # 0
      /\ Hier(mk_tasks, "drift", super(p[2])) # 0

\* A graph has been made that holds a density task between a local and a
\* foreign cell.
MadeWithForeignPair == mk_made /\ ForeignPairs # {}

\* The array of node n that holds the particles of kind f, the outgoing
\* buffer of that kind in a proxy and the incoming count of that kind.
StrayArray(n, f) ==
  CASE f = "parts" -> parts[n] [] f = "sparts" -> sparts[n] [] OTHER -> gparts[n]

StrayOut(prox, f) ==
  CASE f = "parts" -> prox.parts_out [] f = "sparts" -> prox.sparts_out
    [] OTHER -> prox.gparts_out

StrayNrIn(prox, f) ==
  CASE f = "parts" -> prox.nr_parts_in [] f = "sparts" -> prox.nr_sparts_in
    [] OTHER -> prox.nr_gparts_in

\* The particles node n started with, of the kind held in array f.
StrayBefore(n, f) ==
  CASE f = "parts" -> MakeParts(pop[n], n, "gas")
    [] f = "sparts" -> MakeParts(pop[n], n, "star")
    [] OTHER -> MakeGparts(pop[n], n)

\* A turn of the loop on MPI_Waitany of node n that copies: the request that
\* completed was the last one pending for some proxy, and the counters move
\* on by the incoming counts of that proxy.
CopiesAfterLastRequest(n) ==
  (spc[n] = "waitany"
   /\ (count_in'[n] # count_in[n] \/ parts'[n] # parts[n]
       \/ sparts'[n] # sparts[n] \/ gparts'[n] # gparts[n])) =>
    \E p \in Nodes \ {n} :
      /\ \E q \in 0..3 : <<p, q>> \in reqs_in[n]
      /\ \A q \in 0..3 : <<p, q>> \notin reqs_in'[n]
      /\ \A f \in {"parts", "sparts", "gparts"} :
           /\ count_in'[n][f] = count_in[n][f] + StrayNrIn(proxies[n][p], f)
           /\ \A i \in 1..(offsets[n][f] + count_in[n][f]) :
                StrayArray(n, f)[i].id = StrayArray(n, f)[i].id'

\* C38: in engine_exchange_strays the incoming particles of a proxy are
\* copied only by the turn of the loop in which the last pending request of
\* that proxy completes, behind the local particles and those of the proxies
\* copied before; at the end each proxy's particles are in the arrays once,
\* as one block behind the local particles, no two blocks overlapping, and
\* the counts returned are the sums of the proxies' incoming counts, in
\* every order of completion of the requests.
StraysCopiedOncePerProxy ==
  /\ [][\A n \in Nodes : CopiesAfterLastRequest(n)]_vars
  /\ [](StraysDone =>
         \A n \in Nodes : \A f \in {"parts", "sparts", "gparts"} :
           LET arr == StrayArray(n, f)
               o == offsets[n][f]
               N == Nstray[n][f]
           IN /\ N = Sum([p \in Nodes |->
                            IF p = n THEN 0 ELSE StrayNrIn(proxies[n][p], f)],
                         nr_nodes)
              /\ Len(arr) >= o + N
              /\ \A i \in 1..o : arr[i].id = StrayBefore(n, f)[i].id
              /\ \A p \in Nodes \ {n} :
                   LET in == StrayOut(proxies[p][n], f)
                   IN /\ Len(in) = StrayNrIn(proxies[n][p], f)
                      /\ \E b \in o..(o + N - Len(in)) :
                           \A k \in 1..Len(in) : arr[b + k].id = in[k].id
              /\ Cardinality({arr[i].id : i \in 1..(o + N)}) = o + N)

\* The exchange is over on a node that received gravity particles through
\* two proxies, one of them with parts, xparts and gparts requests pending.
StraysFromTwoProxies ==
  /\ StraysDone
  /\ \E n \in Nodes :
       /\ \A p \in Nodes \ {n} : proxies[n][p].nr_gparts_in > 0
       /\ \E p \in Nodes \ {n} : proxies[n][p].nr_parts_in > 0
       /\ Nstray[n].gparts > 1

\* The keys of the elements the map holds, in the order of the chunks.
HeldKeys ==
  LET els == hashmap_elements(hm_chunks, 1, 0)
  IN [k \in 1..Len(els) |-> els[k].key]

\* The keys inserted through hashmap_put and hashmap_get.
InsertedKeys == {k \in HashKeys : put_log[k] # -1}

\* C39: hashmap_size(m), which returns m->size, is the number of distinct
\* keys inserted through hashmap_put and hashmap_get since hashmap_init,
\* also after hashmap_grow has rehashed the table, and the map never holds
\* two elements with the same key.
SizeCountsDistinctKeys ==
  hm_err = "" =>
    /\ hm_size = Cardinality(InsertedKeys)
    /\ \A i, j \in DOMAIN HeldKeys : HeldKeys[i] = HeldKeys[j] => i = j

\* The part that holds: the map holds each inserted key in one element and
\* no other key, also after hashmap_grow, and m->size is never below the
\* number of elements.
MapHoldsEachKeyOnce ==
  hm_err = "" =>
    /\ {HeldKeys[i] : i \in DOMAIN HeldKeys} = InsertedKeys
    /\ Len(HeldKeys) = Cardinality(InsertedKeys)
    /\ hm_size >= Len(HeldKeys)
    /\ hm_table_size = INITIAL_SIZE => hm_size = Len(HeldKeys)

(***************************************************************************)
(* engine_compute_next_snapshot_time on its own: the call at the end of    *)
(* engine_init, with ti_current = 0 and ti_nextSnapshot = 0, and the calls *)
(* of the output loop of engine_step, each with ti_current at the snapshot *)
(* just written.  timeBegin is 0 and the times are whole numbers.          *)
(***************************************************************************)
\* The largest Snapshots:delta_time followed.
MaxSnapDelta == 3

\* The checks of engine_init on the snapshot parameters.
engine_init_accepts(first, delta) == ~(delta < 0) /\ ~(first < 0)

\* The call of engine_compute_next_snapshot_time at the end of engine_init.
engine_init_snapshot ==
  /\ sn_pc = "init"
  /\ LET r == engine_compute_next_snapshot_time(
                sn_timeFirstSnapshot, sn_deltaTimeSnapshot,
                sn_ti_nextSnapshot, sn_ti_current)
     IN /\ sn_ti_nextSnapshot' = r.ti
        /\ sn_pc' = IF r.exits THEN "returned" ELSE "no return"
  /\ UNCHANGED <<sn_timeFirstSnapshot, sn_deltaTimeSnapshot, sn_ti_current>>
  /\ UNCHANGED <<cfgVars, markVars, launchVars, moveVars, stepVars, linkVars, hashVars, gridVars, makeVars, xchVars, alVars, mpVars, bhVars, lgVars, ppVars>>

\* A turn of the output loop of engine_step, for a step that ends at or
\* after the next snapshot: ti_current becomes the time of the snapshot and
\* the next snapshot time is computed.
engine_step_snapshot_time ==
  /\ sn_pc = "returned"
  /\ sn_ti_nextSnapshot > 0
  /\ sn_ti_current' = sn_ti_nextSnapshot
  /\ LET r == engine_compute_next_snapshot_time(
                sn_timeFirstSnapshot, sn_deltaTimeSnapshot,
                sn_ti_nextSnapshot, sn_ti_current')
     IN /\ sn_ti_nextSnapshot' = r.ti
        /\ sn_pc' = IF r.exits THEN "returned" ELSE "no return"
  /\ UNCHANGED <<sn_timeFirstSnapshot, sn_deltaTimeSnapshot>>
  /\ UNCHANGED <<cfgVars, markVars, launchVars, moveVars, stepVars, linkVars, hashVars, gridVars, makeVars, xchVars, alVars, mpVars, bhVars, lgVars, ppVars>>

\* engine_init up to its last call, for every pair of snapshot parameters
\* that it accepts.
InitSnap ==
  /\ EngineParked /\ MoveParked /\ LinkParked /\ HashParked /\ GridParked /\ MakeParked /\ XchParked /\ AddlinkParked /\ ProxiesParked /\ BHParked /\ LoggerParked /\ PrepareParked
  /\ sn_timeFirstSnapshot \in -1..(timeEnd + MaxSnapDelta + 1)
  /\ sn_deltaTimeSnapshot \in -1..MaxSnapDelta
  /\ engine_init_accepts(sn_timeFirstSnapshot, sn_deltaTimeSnapshot)
  /\ sn_ti_current = 0
  /\ sn_ti_nextSnapshot = 0
  /\ sn_pc = "init"

NextSnap == engine_init_snapshot \/ engine_step_snapshot_time

SpecSnap == InitSnap /\ [][NextSnap]_vars

\* C40: for every pair of snapshot parameters that engine_init accepts,
\* engine_compute_next_snapshot_time returns and leaves ti_nextSnapshot
\* either equal to -1 or strictly greater than ti_current and strictly
\* below max_nr_timesteps.
NextSnapshotOffOrAhead ==
  /\ sn_pc # "no return"
  /\ sn_pc = "returned" =>
       \/ sn_ti_nextSnapshot = -1
       \/ (sn_ti_nextSnapshot > sn_ti_current
           /\ sn_ti_nextSnapshot < max_nr_timesteps)

\* The part that holds: with a positive time between snapshots and a first
\* snapshot before timeEnd plus that time, the call returns with
\* ti_nextSnapshot equal to -1 or ahead of ti_current and on the time line.
NextSnapshotOffOrAheadForPositiveDelta ==
  (sn_deltaTimeSnapshot > 0
   /\ sn_timeFirstSnapshot < timeEnd + sn_deltaTimeSnapshot) =>
    NextSnapshotOffOrAhead

====
